---- MODULE Spec2Model ----
(***************************************************************************)
(* A model of claude-tg: the Agent Runner (runner.py: child process,       *)
(* background stdout pump, event queue, per-turn iterator) and the Turn    *)
(* Coordinator (bot.py: input buffer, debounce task, single-turn gate,     *)
(* turn driver).  All tasks run on one asyncio event loop, so every action *)
(* is the code between two suspension points of one task.                  *)
(***************************************************************************)
EXTENDS Integers, Sequences, FiniteSets, TLC

\* ------------------------------------------------------------------ bounds
MaxDrv == 2        \* executions of an input handler (each may create one flush)
MaxChildren == 3   \* child processes started in one behaviour
MaxDeltas == 1     \* body records the child writes per prompt before its result
MaxInject == 1     \* collaborator calls of inject()
MaxQueue == 3      \* length of the queue contents enumerated for the queue-level checks
MaxTimeout == 3    \* session_timeout values (in clock units) tried by the timeout check
MaxCost == 2       \* session_cost values (in cost units) tried by the timeout check
MaxMedia == 2      \* tracked media files tried by the timeout check
MinLength == 2     \* smallest MessageChain.max_length tried
MaxLength == 3     \* largest MessageChain.max_length tried
MaxInput == 6      \* total characters appended to one MessageChain
MaxChunks == 2     \* complete_current calls on one MessageChain
StreamMaxLength == 3 \* max_length of the chain of a TelegramStream (3800, scaled)
MaxInterval == 2   \* largest update_interval tried, in seconds
MaxPush == 4       \* characters pushed into one TelegramStream
MaxTicks == 3      \* seconds that pass during one turn
MaxFail == 1       \* platform calls that fail during one turn
MaxBurst == 4      \* cap of the edit counters of a TelegramStream
MaxResults == 6    \* RESULT events whose cost is accounted
MaxCalls == 3      \* calls of inject() and run() on one runner
MaxServers == 2    \* tool-server names a configuration file can register

VARIABLES
    process,        \* runner.process: "none" | "alive" | "exited" (returncode set)
    child,          \* the child behind runner.process (its stdin, progress, session)
    nchild,         \* children started so far
    reader,         \* runner._reader_task: [st, c] (state, child it pumps)
    queue,          \* runner._event_queue
    session_id,     \* runner.session_id (0 is None)
    buffer,         \* bot._buffer
    buffer_photos,  \* bot._buffer_photos
    buffer_docs,    \* bot._buffer_docs
    debounce_task,  \* bot._debounce_task (0 is None, else a task id)
    stream,         \* bot._stream (0 is None, else the flush that created it)
    drv,            \* the executions of _process_buffer (debounce tasks, /compact)
    ndrv,           \* handler executions so far (ids handed out)
    hpc,            \* the update being handled at a suspension point of its handler
    ninject,        \* inject() calls so far
    lasty,          \* history: the last event a turn iterator yielded, and to which flush
    hw,             \* history: per child, the output position of its last yielded event
    lastEnd,        \* history: the flush that ended last, how, and its stream's finalizes
    arrived,        \* history: inputs appended to a buffer since the last flush began
    call            \* a runner operation applied to a whole queue: [op, arg, ret]

vars == <<process, child, nchild, reader, queue, session_id, buffer, buffer_photos,
          buffer_docs, debounce_task, stream, drv, ndrv, hpc, ninject, lasty, hw, lastEnd,
          arrived, call>>

runnerVars == <<process, child, nchild, reader, queue, session_id>>
bufVars == <<buffer, buffer_photos, buffer_docs>>

\* ------------------------------------------------------------ queue items
\* RunnerEvent (k = "ev") and the sentinels _EOF / _Error share the queue.
\* turn: the prompt the child was answering; n: position in the child's output;
\* c: the child; syn: which synthetic TEXT_DELTA of the runner this is ("" if none).
Item(k, type, turn, n, c, syn) ==
    [k |-> k, type |-> type, turn |-> turn, n |-> n, c |-> c, syn |-> syn]

RunnerEvent(type, turn, n, c) == Item("ev", type, turn, n, c, "")

EOFSentinel(stderr, c) == Item("EOF", IF stderr THEN "stderr" ELSE "", 0, 0, c, "")

ErrorSentinel(c) == Item("Error", "", 0, 0, c, "")

Synthetic(what) == Item("ev", "TEXT_DELTA", 0, 0, 0, what)

EventTypes == {"INIT", "TEXT_DELTA", "TOOL_START", "TOOL_USE", "TOOL_RESULT", "RESULT"}

\* StreamParser.parse: the record kinds of the wire protocol to event types.
parse(rec) ==
    CASE rec = "system_init" -> "INIT"
      [] rec = "text_delta" -> "TEXT_DELTA"
      [] rec = "tool_start" -> "TOOL_START"
      [] rec = "assistant_tool_use" -> "TOOL_USE"
      [] rec = "user_tool_result" -> "TOOL_RESULT"
      [] rec = "result" -> "RESULT"
      [] OTHER -> "none"

\* The body records a child writes between init and result in this model.
BodyRecords == {"text_delta", "message_stop"}

\* --------------------------------------------------------- runner helpers
process_alive == process = "alive"

NoChild == [id |-> 0, sid |-> 0, resume |-> 0, stdin |-> <<>>, cur |-> 0,
            inited |-> FALSE, deltas |-> 0, n |-> 0, exitErr |-> FALSE, broken |-> FALSE]

NoReader == [st |-> "none", c |-> 0]

\* Variant of Enqueue that puts the item at the head.
EnqueueFront(q, x) == <<x>> \o q

\* asyncio.Queue.put on the unbounded queue: the item goes to the tail.
Enqueue(q, x) == Append(q, x)

\* _ensure_process before a new child: get_nowait until the queue is empty.
ClearQueue(q) == <<>>

\* Variant of _drain_pending that discards everything, sentinels included.
DrainEverything(q) == <<>>

\* _drain_pending: pop until the queue is empty; an _EOF is put back at the
\* tail and ends the loop.  Queue.put on an unbounded queue never suspends.
RECURSIVE _drain_pending(_)
_drain_pending(q) ==
    IF q = <<>> THEN <<>>
    ELSE IF Head(q).k = "EOF" THEN Enqueue(Tail(q), Head(q))
    ELSE _drain_pending(Tail(q))

\* _read_until_result, one popped item: what is yielded for it.
IterYield(item) ==
    IF item.k = "EOF"
      THEN (IF item.type = "stderr" THEN <<Synthetic("eof")>> ELSE <<>>)
    ELSE IF item.k = "Error" THEN <<Synthetic("reader")>>
    ELSE <<item>>

\* Variant of IterEnds that does not stop on RESULT.
EndsOnSentinelOnly(item) == item.k \in {"EOF", "Error"}

\* _read_until_result, one popped item: whether the iterator returns after it.
IterEnds(item) == item.k \in {"EOF", "Error"} \/ item.type = "RESULT"

\* asyncio.Queue.get: the item the iterator receives, and the queue left.
QueueGet(q) == Head(q)

QueueRest(q) == Tail(q)

\* _read_until_result over the whole content q the queue receives during one
\* iteration: what is yielded (out) and what stays queued (rest).  When the
\* content runs out before a RESULT or a sentinel, the per-item timeout ends
\* the iteration with its synthetic TEXT_DELTA.
RECURSIVE _read_until_result(_)
_read_until_result(q) ==
    IF q = <<>> THEN [out |-> <<Synthetic("timeout")>>, rest |-> <<>>]
    ELSE LET item == QueueGet(q)
             r == _read_until_result(QueueRest(q))
         IN IF IterEnds(item) THEN [out |-> IterYield(item), rest |-> QueueRest(q)]
            ELSE [out |-> IterYield(item) \o r.out, rest |-> r.rest]

\* Variant of RunFinally that always drops the child reference.
ClearsReference(p) == "none"

\* run(), finally: the child reference is cleared when the child is not alive.
RunFinally(p) == IF p = "alive" THEN p ELSE "none"

\* ------------------------------------------------------------- strings
\* A string is a sequence of tokens <<kind, id>>; the text of input i is the
\* one token <<"text", i>>, the literal "/compact" is <<"text", 0>>.
Txt(i) == << <<"text", i>> >>

NL == << <<"nl", 0>> >>

PhotoLine(i) == << <<"photo", i>> >>

DocLine(i) == << <<"doc", i>> >>

\* sep.join(parts) for a sequence of strings.
RECURSIVE Join(_, _)
Join(parts, sep) ==
    IF parts = <<>> THEN <<>>
    ELSE IF Len(parts) = 1 THEN parts[1]
    ELSE parts[1] \o sep \o Join(Tail(parts), sep)

\* MediaHandler.build_prompt: a line per photo, a line per document, the text.
build_prompt(text, photo_paths, doc_paths) ==
    LET parts == [k \in 1..Len(photo_paths) |-> PhotoLine(photo_paths[k])]
                 \o [k \in 1..Len(doc_paths) |-> DocLine(doc_paths[k])]
                 \o (IF text # <<>> THEN <<text>> ELSE <<>>)
    IN IF parts # <<>> THEN Join(parts, NL) ELSE text

\* "\n".join(self._buffer): the buffer holds input ids.
BufferText(buf) == Join([k \in 1..Len(buf) |-> Txt(buf[k])], NL)

\* ------------------------------------------------------- coordinator helpers
Drivers == 1..MaxDrv

IdleDrv == [pc |-> "idle", kind |-> "task", texts |-> <<>>, photos |-> <<>>,
            docs |-> <<>>, resume |-> 0, live |-> FALSE, fin |-> 0, cfin |-> 0]

IdleHandler == [op |-> "idle", cap |-> FALSE, id |-> 0]

\* A flush that is suspended somewhere in _fire / _process_buffer.
ActivePcs == {"sleep", "busy_send", "stream_start", "spawn", "stdin_drain", "read"}

\* The part of _process_buffer from building the stream to leaving the loop.
TurnPcs == {"stream_start", "spawn", "stdin_drain", "read"}

\* Inside the generator runner.run(prompt).
RunPcs == {"spawn", "stdin_drain", "read"}

\* runner.is_running, read by bot.py and not defined by runner.py: a turn is
\* active, from the flush that passed the gate until that flush leaves its
\* event loop or runner.cancel() completes.  Whether a turn whose task was
\* cancelled by a re-armed debounce still counts as active is left open: the
\* record of such a flush may keep its live flag.
is_running == \E d \in Drivers : drv[d].live

\* The prompt a flush hands to runner.run.
PromptOf(d) == build_prompt(BufferText(drv[d].texts), drv[d].photos, drv[d].docs)

\* Updates are processed one at a time (Application without concurrent
\* updates): a new update is handled when no handler is suspended.
HandlerFree ==
    /\ hpc.op = "idle"
    /\ \A d \in Drivers : ~(drv[d].kind = "handler" /\ drv[d].pc \in ActivePcs)

\* ------------------------------------------------------------ child, pump
\* Variant of SessionAfterEvent that takes the session id of any event.
SessionFromAnyEvent(sid, type, evsid) == evsid

\* _stdout_reader: session_id after parsing an event that carries evsid.
SessionAfterEvent(sid, type, evsid) == IF type \in {"INIT", "RESULT"} THEN evsid ELSE sid

\* The event the pump enqueues for one stdout line ("none": nothing enqueued).
PumpEventType(rec) == IF rec = "not_json" THEN "TEXT_DELTA" ELSE parse(rec)

\* _stdout_reader, one line: the child answers the prompt it is working on (or
\* takes the next one from stdin) and the pump parses and enqueues the line.
\* A line written while no pump reads stays in the pipe and is never seen.
ChildWrites ==
    /\ process_alive
    /\ reader.st = "running"
    /\ child.cur # 0 \/ child.stdin # <<>>
    /\ LET turn == IF child.cur # 0 THEN child.cur ELSE Head(child.stdin)
           rest == IF child.cur # 0 THEN child.stdin ELSE Tail(child.stdin)
           recs == IF ~child.inited THEN {"system_init"}
                   ELSE {"result"} \cup
                        (IF child.deltas < MaxDeltas THEN BodyRecords \cup {"not_json"} ELSE {})
       IN \E rec \in recs :
            LET type == PumpEventType(rec)
                n == child.n + 1
            IN /\ child' = [child EXCEPT !.stdin = rest,
                                         !.cur = IF rec = "result" THEN 0 ELSE turn,
                                         !.inited = TRUE,
                                         !.deltas = IF rec = "result" THEN 0
                                                    ELSE IF rec = "system_init" THEN @ ELSE @ + 1,
                                         !.n = n]
               /\ queue' = IF type = "none" THEN queue
                           ELSE Enqueue(queue, RunnerEvent(type, turn, n, child.id))
               /\ session_id' = SessionAfterEvent(session_id, type, child.sid)
    /\ UNCHANGED <<process, nchild, reader, bufVars, debounce_task, stream, drv, ndrv,
                   hpc, ninject, lasty, hw, lastEnd, arrived, call>>

\* _stdout_reader, except Exception: a line the reader cannot take (bytes that
\* do not decode, a line over the limit, a record the parser raises on).
PumpCrash ==
    /\ process_alive
    /\ reader.st = "running"
    /\ queue' = Enqueue(queue, ErrorSentinel(reader.c))
    /\ reader' = [reader EXCEPT !.st = "crashed"]
    /\ UNCHANGED <<process, child, nchild, session_id, bufVars, debounce_task, stream,
                   drv, ndrv, hpc, ninject, lasty, hw, lastEnd, arrived, call>>

\* The child exits by itself: stdout closes and the return code is set.
\* err: a non-zero return code with text on stderr.
ChildExit ==
    /\ process_alive
    /\ \E err \in BOOLEAN :
         child' = [NoChild EXCEPT !.id = child.id, !.sid = child.sid,
                                  !.resume = child.resume, !.exitErr = err]
    /\ process' = "exited"
    /\ UNCHANGED <<nchild, reader, queue, session_id, bufVars, debounce_task, stream,
                   drv, ndrv, hpc, ninject, lasty, hw, lastEnd, arrived, call>>

\* _stdout_reader at end of file: wait for the child, enqueue _EOF, return.
\* With runner.process already None, self.process.wait() raises and the
\* handler for Exception enqueues an _Error instead.
PumpEOF ==
    /\ reader.st = "running"
    /\ ~process_alive
    /\ IF process = "exited"
         THEN /\ queue' = Enqueue(queue, EOFSentinel(child.exitErr, reader.c))
              /\ reader' = [reader EXCEPT !.st = "done"]
         ELSE /\ queue' = Enqueue(queue, ErrorSentinel(reader.c))
              /\ reader' = [reader EXCEPT !.st = "crashed"]
    /\ UNCHANGED <<process, child, nchild, session_id, bufVars, debounce_task, stream,
                   drv, ndrv, hpc, ninject, lasty, hw, lastEnd, arrived, call>>

\* inject(prompt) by a collaborator: one more user line on the child's stdin.
\* With no live child it raises and changes nothing.
Inject ==
    /\ ninject < MaxInject
    /\ process_alive
    /\ ninject' = ninject + 1
    /\ child' = [child EXCEPT !.stdin = Append(@, MaxDrv + ninject + 1)]
    /\ UNCHANGED <<process, nchild, reader, queue, session_id, bufVars, debounce_task,
                   stream, drv, ndrv, hpc, lasty, hw, lastEnd, arrived, call>>

\* ------------------------------------------------------------ turn driver
NoYield == [d |-> 0, ev |-> Item("none", "", 0, 0, 0, "")]

\* History of what the iterator of flush d yields (out: zero or one event).
Yield(d, out) ==
    IF out = <<>> THEN UNCHANGED <<lasty, hw>>
    ELSE /\ lasty' = [d |-> d, ev |-> out[1]]
         /\ hw' = IF out[1].c # 0 THEN [hw EXCEPT ![out[1].c] = out[1].n] ELSE hw

\* A flush that returned, raised or was cancelled: its locals are gone.
Ended(pc) == [IdleDrv EXCEPT !.pc = pc]

NoEnd == [d |-> 0, how |-> "", at |-> "", fin |-> 0, cfin |-> 0]

\* History of the flush that ended: how, where it was suspended before, and
\* the finalize calls on its stream.
EndOf(d, r, how) == [d |-> d, how |-> how, at |-> r.pc, fin |-> r.fin, cfin |-> r.cfin]

\* Variant of clear_session that forgets nothing.
KeepsSession(sid) == sid

\* clear_session(): session_id afterwards.
clear_session(sid) == 0

\* Variant of Expired that includes the boundary.
ExpiredAtBoundary(elapsed, timeout) == elapsed >= timeout

\* _check_session_timeout: time.time() - _last_activity > session_timeout.
Expired(elapsed, timeout) == elapsed > timeout

\* _check_session_timeout on the state st = [session_id, elapsed, timeout,
\* cost, media]: clear_session(), media.cleanup(), _session_cost = 0.0.
_check_session_timeout(st) ==
    IF st.session_id # 0 /\ Expired(st.elapsed, st.timeout)
      THEN [st EXCEPT !.session_id = clear_session(st.session_id), !.media = 0, !.cost = 0]
      ELSE st

\* _check_session_timeout: whether the idle time exceeds session_timeout is
\* the clock's choice; it clears the session only when one is remembered.
SessionAfterTimeoutCheck(sid, expired) ==
    IF sid # 0 /\ expired THEN clear_session(sid) ELSE sid

\* Variant of the gate that lets every flush through.
GateOpen == FALSE

\* _process_buffer, the gate: a flush is refused while a turn is active.
GateBlocks == is_running

\* Variant of Cleared that leaves the list as it is.
NotCleared(buf) == buf

\* list.clear() on a buffer of the Coordinator.
Cleared(buf) == <<>>

\* _process_buffer up to its first suspension point, run by flush d on the
\* buffer contents texts0 / buffer_photos / buffer_docs: snapshot, clear,
\* return on an empty snapshot, session timeout, gate, stream construction.
ProcessBufferStart(d, kind, texts0) ==
    /\ buffer' = Cleared(buffer)
    /\ buffer_photos' = Cleared(buffer_photos)
    /\ buffer_docs' = Cleared(buffer_docs)
    /\ arrived' = <<>>
    /\ LET r == [IdleDrv EXCEPT !.kind = kind, !.texts = texts0,
                                !.photos = buffer_photos, !.docs = buffer_docs]
       IN IF texts0 = <<>> /\ buffer_photos = <<>> /\ buffer_docs = <<>>
            THEN /\ drv' = [drv EXCEPT ![d] = Ended("done")]
                 /\ lastEnd' = EndOf(d, r, "empty")
                 /\ UNCHANGED <<session_id, stream>>
            ELSE /\ \E expired \in BOOLEAN :
                      session_id' = SessionAfterTimeoutCheck(session_id, expired)
                 /\ UNCHANGED lastEnd
                 /\ IF GateBlocks
                      THEN /\ drv' = [drv EXCEPT ![d] = [r EXCEPT !.pc = "busy_send"]]
                           /\ UNCHANGED stream
                      ELSE /\ drv' = [drv EXCEPT ![d] = [r EXCEPT !.pc = "stream_start",
                                                                  !.live = TRUE]]
                           /\ stream' = d

\* _fire: the debounce sleep of task d is over.
FlushFire(d) ==
    /\ drv[d].pc = "sleep"
    /\ ProcessBufferStart(d, "task", buffer)
    /\ UNCHANGED <<process, child, nchild, reader, queue, debounce_task, ndrv, hpc,
                   ninject, lasty, hw, call>>

\* The "busy" send_message of a refused flush returns.
BusySent(d) ==
    /\ drv[d].pc = "busy_send"
    /\ drv' = [drv EXCEPT ![d] = Ended("done")]
    /\ lastEnd' = EndOf(d, drv[d], "refused")
    /\ UNCHANGED <<runnerVars, bufVars, debounce_task, stream, ndrv, hpc, ninject,
                   lasty, hw, arrived, call>>

\* A platform call outside the try block raises (the busy message, or the
\* placeholder of stream.start()): the exception leaves _process_buffer.
PlatformCallFails(d) ==
    /\ drv[d].pc \in {"busy_send", "stream_start"}
    /\ drv' = [drv EXCEPT ![d] = Ended("failed")]
    /\ lastEnd' = EndOf(d, drv[d], "raised")
    /\ UNCHANGED <<runnerVars, bufVars, debounce_task, stream, ndrv, hpc, ninject,
                   lasty, hw, arrived, call>>

\* Variant of ResumeFlag: the child is always started without --resume.
NoResume(sid) == 0

\* The --resume flag of a new child: the session id remembered when the
\* command line is built.
ResumeFlag(sid) == sid

\* The user line _send_stdin writes for the turn of flush d.
SendStdin(c, d) == [c EXCEPT !.stdin = Append(@, d)]

\* stream.start() returned; run(prompt) begins: _ensure_process, and with a
\* live child also _drain_pending and the stdin write, up to stdin.drain().
\* Without a live child: the old reader is cancelled, the queue is emptied,
\* the command line is built, and the task waits for the new process.
RunEnter(d) ==
    /\ drv[d].pc = "stream_start"
    /\ IF process_alive
         THEN /\ queue' = _drain_pending(queue)
              /\ child' = SendStdin(child, d)
              /\ drv' = [drv EXCEPT ![d].pc = "stdin_drain"]
              /\ UNCHANGED reader
         ELSE /\ nchild < MaxChildren
              /\ reader' = IF reader.st = "running" THEN NoReader ELSE reader
              /\ queue' = ClearQueue(queue)
              /\ drv' = [drv EXCEPT ![d].pc = "spawn", ![d].resume = ResumeFlag(session_id)]
              /\ UNCHANGED child
    /\ UNCHANGED <<process, nchild, session_id, bufVars, debounce_task, stream, ndrv, hpc,
                   ninject, lasty, hw, lastEnd, arrived, call>>

\* create_subprocess_exec returned: the child and its reader task exist; then
\* _drain_pending and the stdin write, up to stdin.drain().
SpawnDone(d) ==
    /\ drv[d].pc = "spawn"
    /\ nchild < MaxChildren
    /\ nchild' = nchild + 1
    /\ process' = "alive"
    /\ child' = SendStdin([NoChild EXCEPT !.id = nchild + 1,
                                          !.sid = IF drv[d].resume # 0 THEN drv[d].resume
                                                  ELSE nchild + 1,
                                          !.resume = drv[d].resume], d)
    /\ reader' = [st |-> "running", c |-> nchild + 1]
    /\ queue' = _drain_pending(queue)
    /\ drv' = [drv EXCEPT ![d].pc = "stdin_drain"]
    /\ UNCHANGED <<session_id, bufVars, debounce_task, stream, ndrv, hpc, ninject,
                   lasty, hw, lastEnd, arrived, call>>

\* _process_buffer after its event loop ended by itself: run()'s finally, the
\* "no RESULT came" finalize of line 233, and the finally that drops _stream.
LeaveLoop(d, r, how) ==
    LET others == \E e \in Drivers \ {d} : drv[e].live
        r1 == IF ~others /\ stream = d THEN [r EXCEPT !.fin = @ + 1] ELSE r
    IN /\ process' = RunFinally(process)
       /\ drv' = [drv EXCEPT ![d] = Ended("done")]
       /\ lastEnd' = EndOf(d, r1, how)
       /\ stream' = 0

\* stdin.drain() returned: the iterator starts waiting on the queue.
StdinDrained(d) ==
    /\ drv[d].pc = "stdin_drain"
    /\ ~child.broken
    /\ drv' = [drv EXCEPT ![d].pc = "read"]
    /\ UNCHANGED <<runnerVars, bufVars, debounce_task, stream, ndrv, hpc, ninject,
                   lasty, hw, lastEnd, arrived, call>>

\* stdin.drain() raised a pipe error: the child closed its end of the pipe
\* (it is gone, with its exit status collected or not yet, or it stopped
\* reading).  The prompt was not delivered; run() yields one synthetic
\* TEXT_DELTA and ends.
StdinBroken(d) ==
    /\ drv[d].pc = "stdin_drain"
    /\ child' = IF process_alive
                  THEN [child EXCEPT !.broken = TRUE,
                                     !.stdin = SelectSeq(@, LAMBDA x : x # d)]
                  ELSE child
    /\ Yield(d, <<Synthetic("pipe")>>)
    /\ LeaveLoop(d, drv[d], "pipe")
    /\ UNCHANGED <<nchild, reader, queue, session_id, bufVars, debounce_task,
                   ndrv, hpc, ninject, arrived, call>>

\* The loop body of _process_buffer for one yielded event: RESULT finalizes
\* the stream with the footer.
AfterEvent(r, ev) == IF ev.type = "RESULT" THEN [r EXCEPT !.fin = @ + 1] ELSE r

\* _read_until_result pops one item; the loop body handles what is yielded;
\* on RESULT or a sentinel the iterator returns and the flush leaves its loop.
ReadItem(d) ==
    /\ drv[d].pc = "read"
    /\ queue # <<>>
    /\ LET item == QueueGet(queue)
           out == IterYield(item)
           r == IF out = <<>> THEN drv[d] ELSE AfterEvent(drv[d], out[1])
       IN /\ queue' = QueueRest(queue)
          /\ Yield(d, out)
          /\ IF IterEnds(item)
               THEN LeaveLoop(d, r, IF item.k = "ev" THEN "RESULT" ELSE item.k)
               ELSE /\ drv' = [drv EXCEPT ![d] = r]
                    /\ UNCHANGED <<process, stream, lastEnd>>
    /\ UNCHANGED <<child, nchild, reader, session_id, bufVars, debounce_task, ndrv, hpc,
                   ninject, arrived, call>>

\* _read_until_result: no item within the 300 s per-item timeout.
ReadTimeout(d) ==
    /\ drv[d].pc = "read"
    /\ queue = <<>>
    /\ Yield(d, <<Synthetic("timeout")>>)
    /\ LeaveLoop(d, drv[d], "timeout")
    /\ UNCHANGED <<child, nchild, reader, queue, session_id, bufVars, debounce_task,
                   ndrv, hpc, ninject, arrived, call>>

\* --------------------------------------------------------------- handlers
\* _schedule_debounce for the handler execution i: cancel and await the task
\* in _debounce_task, then create the new task.  Awaiting a task that ended
\* with an exception raises it here, before the new task is created.  A
\* cancelled task that was inside runner.run runs run()'s finally and the
\* finally of _process_buffer.
ScheduleDebounce(i) ==
    LET old == debounce_task IN
    IF old # 0 /\ drv[old].pc = "failed"
      THEN UNCHANGED <<drv, debounce_task, process, stream, lastEnd>>
      ELSE LET hit == old # 0 /\ drv[old].pc \in ActivePcs
               inRun == hit /\ drv[old].pc \in RunPcs
           IN /\ \E keep \in (IF hit /\ drv[old].live THEN BOOLEAN ELSE {FALSE}) :
                   LET d1 == IF hit THEN [drv EXCEPT ![old] = [Ended("done") EXCEPT !.live = keep]]
                             ELSE drv
                   IN drv' = [d1 EXCEPT ![i] = [IdleDrv EXCEPT !.pc = "sleep"]]
              /\ debounce_task' = i
              /\ process' = IF inRun THEN RunFinally(process) ELSE process
              /\ stream' = IF inRun THEN 0 ELSE stream
              /\ lastEnd' = IF hit THEN EndOf(old, drv[old], "cancelled") ELSE lastEnd

\* handle_text: append the text, arm the debounce.
HandleText ==
    /\ HandlerFree
    /\ ndrv < MaxDrv
    /\ ndrv' = ndrv + 1
    /\ buffer' = Append(buffer, ndrv + 1)
    /\ arrived' = Append(arrived, <<"text", ndrv + 1>>)
    /\ ScheduleDebounce(ndrv + 1)
    /\ UNCHANGED <<child, nchild, reader, queue, session_id, buffer_photos, buffer_docs,
                   hpc, ninject, lasty, hw, call>>

\* handle_photo / handle_document up to the download (save_photo,
\* save_document): the handler is suspended, nothing is buffered yet.
HandleMediaBegin ==
    /\ HandlerFree
    /\ ndrv < MaxDrv
    /\ ndrv' = ndrv + 1
    /\ \E op \in {"photo", "document"}, cap \in BOOLEAN :
         hpc' = [op |-> op, cap |-> cap, id |-> ndrv + 1]
    /\ UNCHANGED <<runnerVars, bufVars, debounce_task, stream, drv, ninject, lasty, hw, lastEnd,
                   arrived, call>>

\* The download returned: append the path, the caption if any, arm the debounce.
HandleMediaSaved ==
    /\ hpc.op # "idle"
    /\ hpc' = IdleHandler
    /\ buffer_photos' = IF hpc.op = "photo" THEN Append(buffer_photos, hpc.id)
                        ELSE buffer_photos
    /\ buffer_docs' = IF hpc.op = "document" THEN Append(buffer_docs, hpc.id)
                      ELSE buffer_docs
    /\ buffer' = IF hpc.cap THEN Append(buffer, hpc.id) ELSE buffer
    /\ arrived' = arrived \o << <<hpc.op, hpc.id>> >>
                          \o (IF hpc.cap THEN << <<"text", hpc.id>> >> ELSE <<>>)
    /\ ScheduleDebounce(hpc.id)
    /\ UNCHANGED <<child, nchild, reader, queue, session_id, ndrv, ninject, lasty, hw, call>>

\* The download raised: the handler ends, nothing is buffered or armed.
HandleMediaFailed ==
    /\ hpc.op # "idle"
    /\ hpc' = IdleHandler
    /\ UNCHANGED <<runnerVars, bufVars, debounce_task, stream, drv, ndrv, ninject,
                   lasty, hw, lastEnd, arrived, call>>

\* cmd_compact: refused while a turn is active; else "/compact" is appended
\* and the handler itself runs _process_buffer.
CmdCompact ==
    /\ HandlerFree
    /\ ndrv < MaxDrv
    /\ ndrv' = ndrv + 1
    /\ IF is_running
         THEN /\ drv' = [drv EXCEPT ![ndrv + 1] = Ended("done")]
              /\ lastEnd' = EndOf(ndrv + 1, IdleDrv, "rejected")
              /\ UNCHANGED <<bufVars, session_id, stream, arrived>>
         ELSE ProcessBufferStart(ndrv + 1, "handler", Append(buffer, 0))
    /\ UNCHANGED <<process, child, nchild, reader, queue, debounce_task, hpc, ninject,
                   lasty, hw, call>>

\* Variant of AfterCancel that keeps the child reference.
StaysReferenced(p) == p

\* cancel(): the child reference afterwards (nothing to do without a child).
AfterCancel(p) == IF p = "none" THEN p ELSE "none"

\* Variant of StreamAfterCancel that keeps the renderer referenced.
StreamKept(st) == st

\* cmd_cancel / handle_cancel_callback: _stream after the cancelled finalize.
StreamAfterCancel(st) == 0

\* runner.cancel() followed by the finalize(cancelled=True) of cmd_cancel and
\* handle_cancel_callback.  cancel() returns at once when process is None;
\* else the reader task is cancelled, the child is killed, and the reference
\* and the processing flag are cleared.
CancelTurn ==
    /\ IF process = "none"
         THEN UNCHANGED <<process, child, reader>>
         ELSE /\ process' = AfterCancel(process)
              /\ child' = NoChild
              /\ reader' = NoReader
    /\ LET d1 == IF process = "none" THEN drv
                 ELSE [d \in Drivers |-> [drv[d] EXCEPT !.live = FALSE]]
       IN drv' = IF stream # 0 THEN [d1 EXCEPT ![stream].cfin = @ + 1] ELSE d1
    /\ stream' = StreamAfterCancel(stream)

\* cmd_cancel: "Nothing running" unless a turn is active.
CmdCancel ==
    /\ HandlerFree
    /\ IF is_running THEN CancelTurn ELSE UNCHANGED <<process, child, reader, drv, stream>>
    /\ UNCHANGED <<nchild, queue, session_id, bufVars, debounce_task, ndrv, hpc, ninject,
                   lasty, hw, lastEnd, arrived, call>>

\* handle_cancel_callback: the cancel button, same as /cancel.
CancelCallback ==
    /\ HandlerFree
    /\ IF is_running THEN CancelTurn ELSE UNCHANGED <<process, child, reader, drv, stream>>
    /\ UNCHANGED <<nchild, queue, session_id, bufVars, debounce_task, ndrv, hpc, ninject,
                   lasty, hw, lastEnd, arrived, call>>

\* cmd_clear: the session is forgotten; the child is left as it is.
CmdClear ==
    /\ HandlerFree
    /\ session_id' = clear_session(session_id)
    /\ UNCHANGED <<process, child, nchild, reader, queue, bufVars, debounce_task, stream,
                   drv, ndrv, hpc, ninject, lasty, hw, lastEnd, arrived, call>>

\* ------------------------------------------------------------ specification
NoCall == [op |-> "none", arg |-> <<>>, ret |-> <<>>]

\* ClaudeRunner.__init__ and ClaudeTelegramBot.__init__.
Init ==
    /\ process = "none"
    /\ child = NoChild
    /\ nchild = 0
    /\ reader = NoReader
    /\ queue = <<>>
    /\ session_id = 0
    /\ buffer = <<>>
    /\ buffer_photos = <<>>
    /\ buffer_docs = <<>>
    /\ debounce_task = 0
    /\ stream = 0
    /\ drv = [d \in Drivers |-> IdleDrv]
    /\ ndrv = 0
    /\ hpc = IdleHandler
    /\ ninject = 0
    /\ lasty = NoYield
    /\ hw = [c \in 1..MaxChildren |-> 0]
    /\ lastEnd = NoEnd
    /\ arrived = <<>>
    /\ call = NoCall

Next ==
    \/ ChildWrites
    \/ PumpCrash
    \/ ChildExit
    \/ PumpEOF
    \/ Inject
    \/ HandleText
    \/ HandleMediaBegin
    \/ HandleMediaSaved
    \/ HandleMediaFailed
    \/ CmdCompact
    \/ CmdCancel
    \/ CancelCallback
    \/ \E d \in Drivers : FlushFire(d)
    \/ \E d \in Drivers : BusySent(d)
    \/ \E d \in Drivers : PlatformCallFails(d)
    \/ \E d \in Drivers : RunEnter(d)
    \/ \E d \in Drivers : SpawnDone(d)
    \/ \E d \in Drivers : StdinDrained(d)
    \/ \E d \in Drivers : StdinBroken(d)
    \/ \E d \in Drivers : ReadItem(d)
    \/ \E d \in Drivers : ReadTimeout(d)

Spec == Init /\ [][Next]_vars

\* The program some time after start: a first turn, started by /compact, has
\* completed with its RESULT, and its child is alive and idle with its pump
\* running.  The turn's task is gone, so the handler executions and their
\* flushes are counted from here.
AfterFirstTurn ==
    /\ process = "alive"
    /\ child = [NoChild EXCEPT !.id = 1, !.sid = 1, !.inited = TRUE, !.n = 2]
    /\ nchild = 1
    /\ reader = [st |-> "running", c |-> 1]
    /\ queue = <<>>
    /\ session_id = 1
    /\ buffer = <<>> /\ buffer_photos = <<>> /\ buffer_docs = <<>>
    /\ debounce_task = 0
    /\ stream = 0
    /\ hpc = IdleHandler
    /\ ninject = 0
    /\ lasty = [d |-> 1, ev |-> RunnerEvent("RESULT", 1, 2, 1)]
    /\ hw = [c \in 1..MaxChildren |-> IF c = 1 THEN 2 ELSE 0]
    /\ lastEnd = [d |-> 1, how |-> "RESULT", at |-> "read", fin |-> 2, cfin |-> 0]
    /\ arrived = <<>>
    /\ call = NoCall

InitRespawn ==
    /\ AfterFirstTurn
    /\ drv = [d \in Drivers |-> IdleDrv]
    /\ ndrv = 0

\* Text, /compact and /cancel as the only input; the child answers or exits.
NextRespawn ==
    \/ ChildWrites
    \/ ChildExit
    \/ PumpEOF
    \/ HandleText
    \/ CmdCompact
    \/ CmdCancel
    \/ \E d \in Drivers : FlushFire(d)
    \/ \E d \in Drivers : BusySent(d)
    \/ \E d \in Drivers : RunEnter(d)
    \/ \E d \in Drivers : SpawnDone(d)
    \/ \E d \in Drivers : StdinDrained(d)
    \/ \E d \in Drivers : StdinBroken(d)
    \/ \E d \in Drivers : ReadItem(d)
    \/ \E d \in Drivers : ReadTimeout(d)

SpecRespawn == InitRespawn /\ [][NextRespawn]_vars

\* The program with the /clear command in use and text as the only input.
NextClear ==
    \/ CmdClear
    \/ ChildWrites
    \/ PumpCrash
    \/ ChildExit
    \/ PumpEOF
    \/ Inject
    \/ HandleText
    \/ CmdCompact
    \/ CmdCancel
    \/ CancelCallback
    \/ \E d \in Drivers : FlushFire(d)
    \/ \E d \in Drivers : BusySent(d)
    \/ \E d \in Drivers : PlatformCallFails(d)
    \/ \E d \in Drivers : RunEnter(d)
    \/ \E d \in Drivers : SpawnDone(d)
    \/ \E d \in Drivers : StdinDrained(d)
    \/ \E d \in Drivers : StdinBroken(d)
    \/ \E d \in Drivers : ReadItem(d)
    \/ \E d \in Drivers : ReadTimeout(d)

SpecClear == Init /\ [][NextClear]_vars

\* ------------------------------------------------- queue-level specification
\* The runner's queue operations applied to every content the queue can hold:
\* a pump appends events and ends with at most one sentinel, and the pump
\* of a child started meanwhile appends behind what an earlier pump left, so
\* a sentinel can stand anywhere.
QueueEvents(n) == {RunnerEvent(t, 1, n, 1) : t \in {"INIT", "TEXT_DELTA", "RESULT"}}

Sentinels == {EOFSentinel(TRUE, 1), EOFSentinel(FALSE, 1), ErrorSentinel(1)}

QueueContents ==
    UNION {{q \in [1..len -> QueueEvents(0) \cup QueueEvents(1) \cup QueueEvents(2)
                              \cup QueueEvents(3) \cup QueueEvents(4) \cup Sentinels] :
              \A i \in 1..len : q[i].k = "ev" => q[i].n = i} : len \in 0..MaxQueue}

InitQueue ==
    /\ process = "none" /\ child = NoChild /\ nchild = 0 /\ reader = NoReader
    /\ queue \in QueueContents
    /\ call = NoCall
    /\ session_id = 0 /\ buffer = <<>> /\ buffer_photos = <<>> /\ buffer_docs = <<>>
    /\ debounce_task = 0 /\ stream = 0 /\ drv = [d \in Drivers |-> IdleDrv]
    /\ ndrv = 0 /\ hpc = IdleHandler /\ ninject = 0 /\ lasty = NoYield
    /\ hw = [c \in 1..MaxChildren |-> 0] /\ lastEnd = NoEnd /\ arrived = <<>>

\* One whole iteration of _read_until_result on the queue.
CallReadUntilResult ==
    /\ call.op = "none"
    /\ LET r == _read_until_result(queue)
       IN /\ call' = [op |-> "_read_until_result", arg |-> queue, ret |-> r.out]
          /\ queue' = r.rest
    /\ UNCHANGED <<process, child, nchild, reader, session_id, bufVars, debounce_task,
                   stream, drv, ndrv, hpc, ninject, lasty, hw, lastEnd, arrived>>

\* One call of _drain_pending on the queue.
CallDrainPending ==
    /\ call.op = "none"
    /\ call' = [op |-> "_drain_pending", arg |-> queue, ret |-> <<>>]
    /\ queue' = _drain_pending(queue)
    /\ UNCHANGED <<process, child, nchild, reader, session_id, bufVars, debounce_task,
                   stream, drv, ndrv, hpc, ninject, lasty, hw, lastEnd, arrived>>

NextQueue ==
    \/ CallReadUntilResult
    \/ CallDrainPending

SpecQueue == InitQueue /\ [][NextQueue]_vars

\* ------------------------------------------- session-timeout specification
\* _check_session_timeout applied to every combination of remembered session,
\* idle time, configured timeout, accumulated cost and tracked media.
SessionStates ==
    [session_id : 0..1, elapsed : 0..(MaxTimeout + 1), timeout : 1..MaxTimeout,
     cost : 0..MaxCost, media : 0..MaxMedia]

InitSession ==
    /\ process = "none" /\ child = NoChild /\ nchild = 0 /\ reader = NoReader
    /\ queue = <<>>
    /\ call \in {[op |-> "none", arg |-> st, ret |-> <<>>] : st \in SessionStates}
    /\ session_id = 0 /\ buffer = <<>> /\ buffer_photos = <<>> /\ buffer_docs = <<>>
    /\ debounce_task = 0 /\ stream = 0 /\ drv = [d \in Drivers |-> IdleDrv]
    /\ ndrv = 0 /\ hpc = IdleHandler /\ ninject = 0 /\ lasty = NoYield
    /\ hw = [c \in 1..MaxChildren |-> 0] /\ lastEnd = NoEnd /\ arrived = <<>>

\* One call of _check_session_timeout.
CallCheckSessionTimeout ==
    /\ call.op = "none"
    /\ call' = [op |-> "_check_session_timeout", arg |-> call.arg,
                ret |-> _check_session_timeout(call.arg)]
    /\ UNCHANGED <<process, child, nchild, reader, queue, session_id, bufVars,
                   debounce_task, stream, drv, ndrv, hpc, ninject, lasty, hw, lastEnd,
                   arrived>>

NextSession == CallCheckSessionTimeout

SpecSession == InitSession /\ [][NextSession]_vars

\* ------------------------------------------------ MessageChain (stream.py)
\* A string is a sequence of one-character strings.
NewLine == "\n"

Min(a, b) == IF a < b THEN a ELSE b

\* str.rfind("\n", lo, hi): the highest 0-based index in [lo, hi) holding a
\* newline, or -1.
rfind(text, lo, hi) ==
    LET S == {i \in lo..(Min(hi, Len(text)) - 1) : text[i + 1] = NewLine}
    IN  IF S = {} THEN -1 ELSE CHOOSE i \in S : \A j \in S : j <= i

\* Variant of lstrip that drops the first character whatever it is.
DropSeparator(text) == IF text = <<>> THEN <<>> ELSE Tail(text)

\* str.lstrip("\n")
RECURSIVE lstrip(_)
lstrip(text) ==
    IF text # <<>> /\ Head(text) = NewLine THEN lstrip(Tail(text)) ELSE text

\* str.rstrip(): the only whitespace of the alphabet is the newline.
RECURSIVE rstrip(_)
rstrip(text) ==
    IF text # <<>> /\ text[Len(text)] = NewLine
      THEN rstrip(SubSeq(text, 1, Len(text) - 1)) ELSE text

\* text[:n] and text[n:]
Prefix(text, n) == SubSeq(text, 1, Min(n, Len(text)))

Suffix(text, n) == SubSeq(text, n + 1, Len(text))

\* Variant of SplitPoint that freezes the whole buffer.
SplitAtEnd(text, max_length) == Len(text)

\* complete_current, long branch: the last newline of text[0:max_length], or
\* max_length when that newline lies in the first half (or there is none).
SplitPoint(text, max_length) ==
    LET split_at == rfind(text, 0, max_length)
    IN  IF split_at < max_length \div 2 THEN max_length ELSE split_at

\* MessageChain.__init__
NewChain(max_length) ==
    [max_length |-> max_length, chunks |-> <<>>, current |-> <<>>, footer |-> <<>>]

append_text(c, text) == [c EXCEPT !.current = @ \o text]

\* What append_tool_call adds to the buffer: a newline if the buffer is
\* non-empty and does not end with one, then the line and a newline.
ToolCallText(current, line) ==
    (IF current # <<>> /\ current[Len(current)] # NewLine THEN <<NewLine>> ELSE <<>>)
        \o line \o <<NewLine>>

append_tool_call(c, line) == [c EXCEPT !.current = @ \o ToolCallText(@, line)]

\* The chunk complete_current freezes and returns.
Completed(c) ==
    IF Len(c.current) <= c.max_length THEN c.current
    ELSE Prefix(c.current, SplitPoint(c.current, c.max_length))

complete_current(c) ==
    [c EXCEPT !.current = IF Len(c.current) <= c.max_length THEN <<>>
                          ELSE lstrip(Suffix(c.current, SplitPoint(c.current, c.max_length))),
              !.chunks = Append(@, Completed(c))]

set_footer(c, footer) == [c EXCEPT !.footer = footer]

render(c) ==
    IF c.footer # <<>> THEN rstrip(c.current) \o <<NewLine, NewLine>> \o c.footer
    ELSE c.current

\* Inputs of the chain operations.
TextPieces == {<<"a">>, <<"b">>, <<NewLine>>, <<"a", "b">>}

ToolLines == {<<"t">>}

Footers == {<<>>, <<"f">>}

\* The chain is kept in call.chain; call.inputs is the concatenation of what
\* the append operations added, call.ret the value the last operation returned.
InitChain ==
    /\ process = "none" /\ child = NoChild /\ nchild = 0 /\ reader = NoReader
    /\ queue = <<>>
    /\ call \in {[op |-> "init", ret |-> <<>>, chain |-> NewChain(m), inputs |-> <<>>] :
                    m \in MinLength..MaxLength}
    /\ session_id = 0 /\ buffer = <<>> /\ buffer_photos = <<>> /\ buffer_docs = <<>>
    /\ debounce_task = 0 /\ stream = 0 /\ drv = [d \in Drivers |-> IdleDrv]
    /\ ndrv = 0 /\ hpc = IdleHandler /\ ninject = 0 /\ lasty = NoYield
    /\ hw = [c \in 1..MaxChildren |-> 0] /\ lastEnd = NoEnd /\ arrived = <<>>

ChainStep(op, c, inputs, ret) ==
    /\ call' = [op |-> op, ret |-> ret, chain |-> c, inputs |-> inputs]
    /\ UNCHANGED <<process, child, nchild, reader, queue, session_id, bufVars,
                   debounce_task, stream, drv, ndrv, hpc, ninject, lasty, hw, lastEnd,
                   arrived>>

AppendText ==
    \E text \in TextPieces :
        /\ Len(call.inputs) + Len(text) <= MaxInput
        /\ ChainStep("append_text", append_text(call.chain, text),
                     call.inputs \o text, <<>>)

AppendToolCall ==
    \E line \in ToolLines :
        LET added == ToolCallText(call.chain.current, line)
        IN  /\ Len(call.inputs) + Len(added) <= MaxInput
            /\ ChainStep("append_tool_call", append_tool_call(call.chain, line),
                         call.inputs \o added, <<>>)

CompleteCurrent ==
    /\ Len(call.chain.chunks) < MaxChunks
    /\ ChainStep("complete_current", complete_current(call.chain), call.inputs,
                 Completed(call.chain))

SetFooter ==
    \E footer \in Footers :
        ChainStep("set_footer", set_footer(call.chain, footer), call.inputs, <<>>)

Render ==
    ChainStep("render", call.chain, call.inputs, render(call.chain))

NextChain == AppendText \/ AppendToolCall \/ CompleteCurrent \/ SetFooter \/ Render

SpecChain == InitChain /\ [][NextChain]_vars

\* ---------------------------------------------- TelegramStream (stream.py)
\* One Renderer and the turn that owns it.  The record in call holds the
\* TelegramStream fields (chain, msgs with current_msg / first_msg as indices
\* into it, last_update, dirty), the clock, the position of _process_buffer
\* around its event loop (pc), whether bot._stream still refers to this
\* stream, and history fields about the platform calls issued so far.
\* A message is [body, kb]: the text last handed to the platform for it and
\* whether it carries the cancel keyboard.  Time is counted in seconds.
\* The fixed texts are scaled like max_length: "p", "c", "f", "e" stand for
\* the placeholder, the "Cancelled" line, the result footer, the error footer.
Placeholder == <<"p">>

CancelledMark == <<"c", NewLine>>

ResultFooter == <<"f">>

ErrorFooter == <<"e">>

needs_new_message(c) == Len(c.current) > c.max_length

\* not display.strip(): nothing but whitespace.
Blank(text) == \A i \in DOMAIN text : text[i] = NewLine

\* What one platform call does: "ok" (for an edit: the HTML edit or its
\* plain-text fallback went through), "swallowed" (an edit that failed and
\* whose error _edit_message swallows), "raise" (a send that failed, or a
\* plain-text fallback that failed with something else than BadRequest).
AllOk == [o1 |-> "ok", send |-> "ok", o3 |-> "ok"]

Outcomes ==
    {AllOk} \cup {[AllOk EXCEPT !.o1 = k] : k \in {"swallowed", "raise"}}
            \cup {[AllOk EXCEPT !.send = "raise"]}
            \cup {[AllOk EXCEPT !.o3 = k] : k \in {"swallowed", "raise"}}

\* _edit_message(msg, text, reply_markup) on message m; markup is TRUE for
\* the cancel keyboard and FALSE for None.  An edit that changes nothing is
\* answered "message is not modified" and returns.
_edit_message(r, m, text, markup, o) ==
    LET r0 == [r EXCEPT !.acted = TRUE,
                        !.burst = Min(@ + 1, MaxBurst),
                        !.kbnone = IF markup THEN @ ELSE Min(@ + 1, MaxBurst),
                        !.lastkb = IF markup THEN "kb" ELSE "none",
                        !.nontail = @ \/ (markup /\ m # Len(r.msgs))]
    IN  IF r.msgs[m] = [body |-> text, kb |-> markup] THEN r0
        ELSE IF o = "ok" THEN [r0 EXCEPT !.msgs[m] = [body |-> text, kb |-> markup]]
        ELSE IF o = "raise" THEN [r0 EXCEPT !.exc = TRUE, !.threw = TRUE]
        ELSE r0

\* The needs_new_message branch of _flush: freeze a chunk, show it without
\* keyboard, post the continuation placeholder and make it current.
FlushSplit(r, o) ==
    LET r1 == _edit_message([r EXCEPT !.chain = complete_current(@)], r.current_msg,
                            Completed(r.chain), FALSE, o.o1)
    IN  IF r1.exc THEN r1
        ELSE IF o.send = "raise" THEN [r1 EXCEPT !.acted = TRUE, !.exc = TRUE, !.threw = TRUE]
        ELSE [r1 EXCEPT !.acted = TRUE,
                        !.msgs = Append(@, [body |-> Placeholder, kb |-> TRUE]),
                        !.current_msg = Len(r1.msgs) + 1]

_flush(r, o) ==
    IF ~r.dirty \/ r.current_msg = 0 THEN r
    ELSE LET r1 == IF needs_new_message(r.chain) THEN FlushSplit(r, o) ELSE r
             display == render(r1.chain)
             r2 == IF ~r1.exc /\ ~Blank(display)
                     THEN _edit_message(r1, r1.current_msg, display, TRUE, o.o3) ELSE r1
         IN  IF r2.exc THEN r2 ELSE [r2 EXCEPT !.last_update = r.now, !.dirty = FALSE]

\* Variant of _maybe_update that flushes on every push.
AlwaysFlush(r, o) == _flush(r, o)

_maybe_update(r, o) ==
    IF r.now - r.last_update < r.update_interval THEN r ELSE _flush(r, o)

push_text(r, text, o) ==
    _maybe_update([r EXCEPT !.chain = append_text(@, text), !.dirty = TRUE], o)

push_tool_call(r, line, o) ==
    _maybe_update([r EXCEPT !.chain = append_tool_call(@, line), !.dirty = TRUE], o)

push_tool_result(r, html, o) ==
    _maybe_update([r EXCEPT !.chain = append_text(@, html), !.dirty = TRUE], o)

finalize(r, footer, cancelled, o) ==
    LET c1 == IF cancelled THEN [r.chain EXCEPT !.current = CancelledMark \o @] ELSE r.chain
        c2 == IF footer # <<>> THEN set_footer(c1, footer) ELSE c1
        r1 == [r EXCEPT !.chain = c2, !.finalized = TRUE]
    IN  IF ~Blank(render(c2)) /\ r.current_msg # 0
          THEN _edit_message(r1, r.current_msg, render(c2), FALSE, o.o3)
          ELSE r1

\* runner.is_running as read on line 233 of bot.py, after the event loop of
\* the only turn has ended: no turn is active.
TurnActiveAfterLoop == FALSE

NewStream(update_interval) ==
    [op |-> "init", pc |-> "new", bot_stream |-> TRUE, update_interval |-> update_interval,
     chain |-> NewChain(StreamMaxLength), msgs |-> <<>>, current_msg |-> 0,
     first_msg |-> 0, last_update |-> 0, now |-> update_interval, dirty |-> FALSE,
     inputs |-> <<>>, acted |-> FALSE, exc |-> FALSE, burst |-> 0, kbnone |-> 0,
     lastkb |-> "", nontail |-> FALSE, finalized |-> FALSE, late |-> FALSE,
     threw |-> FALSE, fails |-> 0, cancelled |-> FALSE, result |-> FALSE,
     safety |-> FALSE]

InitStream ==
    /\ process = "none" /\ child = NoChild /\ nchild = 0 /\ reader = NoReader
    /\ queue = <<>>
    /\ call \in {NewStream(i) : i \in 1..MaxInterval}
    /\ session_id = 0 /\ buffer = <<>> /\ buffer_photos = <<>> /\ buffer_docs = <<>>
    /\ debounce_task = 0 /\ stream = 0 /\ drv = [d \in Drivers |-> IdleDrv]
    /\ ndrv = 0 /\ hpc = IdleHandler /\ ninject = 0 /\ lasty = NoYield
    /\ hw = [c \in 1..MaxChildren |-> 0] /\ lastEnd = NoEnd /\ arrived = <<>>

\* One step of the stream specification: r is what the operation leaves; a
\* platform failure is possible while the failure budget lasts, and counted
\* when it made a difference.
StreamStep(op, r, rok) ==
    /\ r # rok => call.fails < MaxFail
    /\ call' = [r EXCEPT !.op = op, !.fails = IF r # rok THEN @ + 1 ELSE @]
    /\ UNCHANGED <<process, child, nchild, reader, queue, session_id, bufVars,
                   debounce_task, stream, drv, ndrv, hpc, ninject, lasty, hw, lastEnd,
                   arrived>>

\* stream.start(), line 211 of bot.py, outside the try block: the placeholder
\* is posted with the keyboard, or the send raises out of _process_buffer.
Started(r, o) ==
    IF o.send = "raise" THEN [r EXCEPT !.pc = "raised"]
    ELSE [r EXCEPT !.pc = "loop", !.msgs = <<[body |-> Placeholder, kb |-> TRUE]>>,
                   !.current_msg = 1, !.first_msg = 1]

StreamStart ==
    /\ call.pc = "new"
    /\ \E o \in Outcomes : StreamStep("start", Started(call, o), Started(call, AllOk))

\* The loop body for one pushed event: where the turn goes next, and whether
\* a push on a finalized stream reached the platform.
AfterPush(r0, r, added) ==
    [r EXCEPT !.pc = IF r.exc THEN "except" ELSE "loop",
              !.inputs = @ \o added,
              !.late = @ \/ (r0.finalized /\ r.acted)]

Entering == [call EXCEPT !.acted = FALSE]

PushText ==
    /\ call.pc = "loop" /\ Len(call.inputs) < MaxPush
    /\ \E o \in Outcomes :
          StreamStep("push_text",
                     AfterPush(call, push_text(Entering, <<"a">>, o), <<"a">>),
                     AfterPush(call, push_text(Entering, <<"a">>, AllOk), <<"a">>))

PushToolCall ==
    /\ call.pc = "loop" /\ Len(call.inputs) + 1 < MaxPush
    /\ LET added == ToolCallText(call.chain.current, <<"t">>)
       IN \E o \in Outcomes :
             StreamStep("push_tool_call",
                        AfterPush(call, push_tool_call(Entering, <<"t">>, o), added),
                        AfterPush(call, push_tool_call(Entering, <<"t">>, AllOk), added))

PushToolResult ==
    /\ call.pc = "loop" /\ Len(call.inputs) < MaxPush
    /\ \E o \in Outcomes :
          StreamStep("push_tool_result",
                     AfterPush(call, push_tool_result(Entering, <<"r">>, o), <<"r">>),
                     AfterPush(call, push_tool_result(Entering, <<"r">>, AllOk), <<"r">>))

\* A RESULT event: finalize with the footer; run() stops after RESULT.
AfterResult(r) == [r EXCEPT !.pc = IF r.exc THEN "except" ELSE "after", !.result = TRUE]

ResultEvent ==
    /\ call.pc = "loop"
    /\ \E o \in Outcomes :
          StreamStep("result", AfterResult(finalize(Entering, ResultFooter, FALSE, o)),
                     AfterResult(finalize(Entering, ResultFooter, FALSE, AllOk)))

\* run() ends without RESULT (EOF, reader error, timeout, pipe error).
LoopEnds ==
    /\ call.pc = "loop"
    /\ StreamStep("loop_ends", [call EXCEPT !.pc = "after"], [call EXCEPT !.pc = "after"])

\* run() raises (e.g. RuntimeError("Process not alive") from _send_stdin).
RunnerRaises ==
    /\ call.pc = "loop"
    /\ StreamStep("runner_raises", [call EXCEPT !.pc = "except", !.exc = TRUE],
                  [call EXCEPT !.pc = "except", !.exc = TRUE])

\* Line 233 (its finalize is recorded in safety) and the finally of
\* _process_buffer.
AfterLoop(r, o) ==
    LET r1 == IF ~TurnActiveAfterLoop /\ r.bot_stream
                THEN finalize([r EXCEPT !.safety = TRUE], <<>>, FALSE, o) ELSE r
    IN  IF r1.exc THEN [r1 EXCEPT !.pc = "except"]
        ELSE [r1 EXCEPT !.pc = "done", !.bot_stream = FALSE]

Line233 ==
    /\ call.pc = "after"
    /\ \E o \in Outcomes :
          StreamStep("line233", AfterLoop(Entering, o), AfterLoop(Entering, AllOk))

\* except Exception: finalize with the error footer (if that raises too, the
\* error goes out as a plain message), then the finally.
Handled(r, o) ==
    [finalize([r EXCEPT !.exc = FALSE], ErrorFooter, FALSE, o)
        EXCEPT !.pc = "done", !.exc = FALSE, !.bot_stream = FALSE]

HandleError ==
    /\ call.pc = "except"
    /\ \E o \in Outcomes :
          StreamStep("except", Handled(Entering, o), Handled(Entering, AllOk))

\* cmd_cancel / handle_cancel_callback while the turn is in its loop, after
\* runner.cancel(): finalize(cancelled=True) and bot._stream = None.  An
\* exception of finalize leaves the handler, not _process_buffer.
Cancelled(r, o) ==
    [finalize(r, <<>>, TRUE, o) EXCEPT !.exc = FALSE, !.bot_stream = FALSE,
                                       !.cancelled = TRUE]

CancelPressed ==
    /\ call.pc = "loop" /\ call.bot_stream /\ ~call.cancelled
    /\ \E o \in Outcomes :
          StreamStep("cancel", Cancelled(Entering, o), Cancelled(Entering, AllOk))

\* One second passes.
Tick ==
    /\ call.now < call.update_interval + MaxTicks
    /\ StreamStep("tick", [call EXCEPT !.now = @ + 1, !.burst = 0],
                  [call EXCEPT !.now = @ + 1, !.burst = 0])

NextStream ==
    \/ StreamStart \/ PushText \/ PushToolCall \/ PushToolResult \/ ResultEvent
    \/ LoopEnds \/ RunnerRaises \/ Line233 \/ HandleError \/ CancelPressed \/ Tick

SpecStream == InitStream /\ [][NextStream]_vars

\* The stream with _flush also called on its own, in every state of the
\* stream: before start() (no current message), with nothing pushed since the
\* last flush (not dirty), and inside the update interval.
Flush ==
    /\ call.pc \in {"new", "loop"}
    /\ \E o \in Outcomes :
          LET after(r) == [r EXCEPT !.pc = IF r.exc THEN "except" ELSE call.pc,
                                    !.late = @ \/ (call.finalized /\ r.acted)]
          IN StreamStep("_flush", after(_flush(Entering, o)), after(_flush(Entering, AllOk)))

NextFlush ==
    \/ StreamStart \/ PushText \/ PushToolCall \/ PushToolResult \/ ResultEvent
    \/ LoopEnds \/ RunnerRaises \/ Line233 \/ HandleError \/ CancelPressed \/ Tick
    \/ Flush

SpecFlush == InitStream /\ [][NextFlush]_vars

\* ------------------------------------------------ cost accounting (bot.py)
\* session_cost under RESULT events, /clear and the session timeout.  The
\* record in call holds _session_cost, and as history the cost_usd of the
\* most recent RESULT since the last reset and the number of RESULTs.
\* _process_buffer, RESULT branch: self._session_cost += event.cost_usd
CostAfterResult(session_cost, cost_usd) == session_cost + cost_usd

\* cmd_clear and _check_session_timeout: self._session_cost = 0.0
CostAfterReset(session_cost) == 0

InitCost ==
    /\ process = "none" /\ child = NoChild /\ nchild = 0 /\ reader = NoReader
    /\ queue = <<>>
    /\ call = [op |-> "init", session_cost |-> 0, last |-> 0, results |-> 0]
    /\ session_id = 0 /\ buffer = <<>> /\ buffer_photos = <<>> /\ buffer_docs = <<>>
    /\ debounce_task = 0 /\ stream = 0 /\ drv = [d \in Drivers |-> IdleDrv]
    /\ ndrv = 0 /\ hpc = IdleHandler /\ ninject = 0 /\ lasty = NoYield
    /\ hw = [c \in 1..MaxChildren |-> 0] /\ lastEnd = NoEnd /\ arrived = <<>>

CostStep(r) ==
    /\ call' = r
    /\ UNCHANGED <<process, child, nchild, reader, queue, session_id, bufVars,
                   debounce_task, stream, drv, ndrv, hpc, ninject, lasty, hw, lastEnd,
                   arrived>>

\* A turn's RESULT event carrying cost_usd.
CostResult ==
    /\ call.results < MaxResults
    /\ \E cost_usd \in 0..MaxCost :
          CostStep([op |-> "result",
                    session_cost |-> CostAfterResult(call.session_cost, cost_usd),
                    last |-> cost_usd, results |-> call.results + 1])

\* /clear (a second /clear in a row changes nothing more)
CostClear ==
    /\ call.op # "clear"
    /\ CostStep([call EXCEPT !.op = "clear", !.last = 0,
                             !.session_cost = CostAfterReset(@)])

\* A flush that finds the session timed out (after which _touch_activity
\* makes the next check find it fresh).
CostTimeout ==
    /\ call.op # "timeout"
    /\ CostStep([call EXCEPT !.op = "timeout", !.last = 0,
                             !.session_cost = CostAfterReset(@)])

NextCost == CostResult \/ CostClear \/ CostTimeout

SpecCost == InitCost /\ [][NextCost]_vars

\* ------------------------------------------------- authorization (bot.py)
\* Every handler applied once to an inbound update, from the configured chat
\* or not, up to its first suspension.  st is what the handlers can touch:
\* whether the buffers hold something, a debounce task exists, a session is
\* remembered, cost was accumulated, the model was changed, a turn is running
\* (then bot._stream is set).  A handler leaves the new st and the number of
\* outbound platform calls it made (reply, send, edit, answer, download).
CoordinatorStates ==
    [buffer : BOOLEAN, media : BOOLEAN, debounce : BOOLEAN, session_id : 0..1,
     cost : 0..1, model : 0..1, running : BOOLEAN]

Outcome(st, calls) == [st |-> st, calls |-> calls]

\* "if not self._is_authorized(update): return"
Dropped(st) == Outcome(st, 0)

InitAuth ==
    /\ process = "none" /\ child = NoChild /\ nchild = 0 /\ reader = NoReader
    /\ queue = <<>>
    /\ call \in {[op |-> "none", auth |-> TRUE, before |-> st, after |-> st, calls |-> 0] :
                    st \in CoordinatorStates}
    /\ session_id = 0 /\ buffer = <<>> /\ buffer_photos = <<>> /\ buffer_docs = <<>>
    /\ debounce_task = 0 /\ stream = 0 /\ drv = [d \in Drivers |-> IdleDrv]
    /\ ndrv = 0 /\ hpc = IdleHandler /\ ninject = 0 /\ lasty = NoYield
    /\ hw = [c \in 1..MaxChildren |-> 0] /\ lastEnd = NoEnd /\ arrived = <<>>

\* The inbound update was handled by the handler op with outcome out.
Inbound(op, auth, out) ==
    /\ call' = [op |-> op, auth |-> auth, before |-> call.before, after |-> out.st,
                calls |-> out.calls]
    /\ UNCHANGED <<process, child, nchild, reader, queue, session_id, bufVars,
                   debounce_task, stream, drv, ndrv, hpc, ninject, lasty, hw, lastEnd,
                   arrived>>

\* One action per handler; a handler is applied to a state once.
handle_text ==
    /\ call.op = "none"
    /\ \E auth \in BOOLEAN :
          Inbound("text", auth,
                  IF ~auth THEN Dropped(call.before)
                  ELSE Outcome([call.before EXCEPT !.buffer = TRUE, !.debounce = TRUE], 0))

\* handle_photo / handle_document: download, remember the path, arm.
handle_photo ==
    /\ call.op = "none"
    /\ \E auth \in BOOLEAN :
          Inbound("photo", auth,
                  IF ~auth THEN Dropped(call.before)
                  ELSE Outcome([call.before EXCEPT !.media = TRUE, !.debounce = TRUE], 1))

handle_document ==
    /\ call.op = "none"
    /\ \E auth \in BOOLEAN :
          Inbound("document", auth,
                  IF ~auth THEN Dropped(call.before)
                  ELSE Outcome([call.before EXCEPT !.media = TRUE, !.debounce = TRUE], 1))

handle_voice ==
    /\ call.op = "none"
    /\ \E auth \in BOOLEAN :
          Inbound("voice", auth,
                  IF ~auth THEN Dropped(call.before) ELSE Outcome(call.before, 1))

cmd_clear ==
    /\ call.op = "none"
    /\ \E auth \in BOOLEAN :
          Inbound("clear", auth,
                  IF ~auth THEN Dropped(call.before)
                  ELSE Outcome([call.before EXCEPT !.session_id = 0, !.cost = 0], 1))

\* cmd_compact: the busy reply, or "/compact" is flushed at once: the buffers
\* are emptied and the turn posts its placeholder.
cmd_compact ==
    /\ call.op = "none"
    /\ \E auth \in BOOLEAN :
          Inbound("compact", auth,
                  IF ~auth THEN Dropped(call.before)
                  ELSE IF call.before.running THEN Outcome(call.before, 1)
                  ELSE Outcome([call.before EXCEPT !.buffer = FALSE, !.media = FALSE,
                                                   !.running = TRUE], 1))

cmd_cost ==
    /\ call.op = "none"
    /\ \E auth \in BOOLEAN :
          Inbound("cost", auth,
                  IF ~auth THEN Dropped(call.before) ELSE Outcome(call.before, 1))

\* cmd_cancel: "Nothing running.", or runner.cancel(), the final edit of the
\* stream and the reply.
cmd_cancel ==
    /\ call.op = "none"
    /\ \E auth \in BOOLEAN :
          Inbound("cancel", auth,
                  IF ~auth THEN Dropped(call.before)
                  ELSE IF ~call.before.running THEN Outcome(call.before, 1)
                  ELSE Outcome([call.before EXCEPT !.running = FALSE], 2))

\* cmd_model with or without an argument.
cmd_model ==
    /\ call.op = "none"
    /\ \E auth \in BOOLEAN, arg \in 0..1 :
          Inbound("model", auth,
                  IF ~auth THEN Dropped(call.before)
                  ELSE IF arg = 0 THEN Outcome(call.before, 1)
                  ELSE Outcome([call.before EXCEPT !.model = arg], 1))

\* handle_cancel_callback: query.answer() comes first, then the comparison
\* of query.from_user.id with the configured id.
handle_cancel_callback ==
    /\ call.op = "none"
    /\ \E auth \in BOOLEAN :
          Inbound("cancel_callback", auth,
                  IF ~auth THEN Outcome(call.before, 1)
                  ELSE IF ~call.before.running THEN Outcome(call.before, 2)
                  ELSE Outcome([call.before EXCEPT !.running = FALSE], 2))

NextAuth ==
    \/ handle_text \/ handle_photo \/ handle_document \/ handle_voice \/ cmd_clear
    \/ cmd_compact \/ cmd_cost \/ cmd_cancel \/ cmd_model \/ handle_cancel_callback

SpecAuth == InitAuth /\ [][NextAuth]_vars

\* ------------------------------------------------ StreamParser (runner.py)
\* A decoded JSON value: null, a number, a string, a list or a dict.  A dict
\* is a function from its keys to values; a missing field is a missing key.
JNull == [j |-> "null", s |-> "", items |-> <<>>, f |-> <<>>]

JNum == [j |-> "num", s |-> "", items |-> <<>>, f |-> <<>>]

JStr(x) == [j |-> "str", s |-> x, items |-> <<>>, f |-> <<>>]

JList(items) == [j |-> "list", s |-> "", items |-> items, f |-> <<>>]

JDict(f) == [j |-> "dict", s |-> "", items |-> <<>>, f |-> f]

\* An exception (AttributeError, TypeError) raised while parsing.
Raised == [j |-> "raise", s |-> "", items |-> <<>>, f |-> <<>>]

\* v.get(key, default): v must be a dict.
Get(v, key, default) ==
    IF v.j # "dict" THEN Raised
    ELSE IF key \in DOMAIN v.f THEN v.f[key] ELSE default

\* What "for block in content" iterates over: the items of a list, the
\* characters of a string, the keys of a dict; anything else is not iterable.
Iterate(v) ==
    IF v.j = "list" THEN JList(v.items)
    ELSE IF v.j = "str" THEN JList(IF v.s = "" THEN <<>> ELSE <<JStr(v.s)>>)
    ELSE IF v.j = "dict" THEN JList(IF DOMAIN v.f = {} THEN <<>> ELSE <<JStr("key")>>)
    ELSE Raised

\* The loop of _parse_assistant / _parse_user: the first block whose type is
\* wanted makes the event; block.get on a block that is no dict raises.
RECURSIVE FirstBlock(_, _, _)
FirstBlock(blocks, wanted, tag) ==
    IF blocks = <<>> THEN "none"
    ELSE LET type == Get(Head(blocks), "type", JNull)
         IN  IF type = Raised THEN "raise"
             ELSE IF type = JStr(wanted) THEN tag
             ELSE FirstBlock(Tail(blocks), wanted, tag)

_parse_system(data) ==
    IF Get(data, "subtype", JNull) = JStr("init") THEN "INIT" ELSE "none"

_parse_stream_event(data) ==
    LET inner == Get(data, "event", JDict(<<>>))
        inner_type == Get(inner, "type", JNull)
    IN  IF inner_type = Raised THEN "raise"
        ELSE IF inner_type = JStr("content_block_delta")
          THEN LET type == Get(Get(inner, "delta", JDict(<<>>)), "type", JNull)
               IN  IF type = Raised THEN "raise"
                   ELSE IF type = JStr("text_delta") THEN "TEXT_DELTA" ELSE "none"
        ELSE IF inner_type = JStr("content_block_start")
          THEN LET type == Get(Get(inner, "content_block", JDict(<<>>)), "type", JNull)
               IN  IF type = Raised THEN "raise"
                   ELSE IF type = JStr("tool_use") THEN "TOOL_START" ELSE "none"
        ELSE "none"

\* data.get("message", {}).get("content", []) and the loop over it.
ContentBlocks(data, wanted, tag) ==
    LET message == Get(data, "message", JDict(<<>>))
        content == IF message.j # "dict" THEN Raised ELSE Get(message, "content", JList(<<>>))
        blocks == IF content = Raised THEN Raised ELSE Iterate(content)
    IN  IF blocks = Raised THEN "raise" ELSE FirstBlock(blocks.items, wanted, tag)

_parse_assistant(data) == ContentBlocks(data, "tool_use", "TOOL_USE")

_parse_user(data) == ContentBlocks(data, "tool_result", "TOOL_RESULT")

_parse_result(data) == "RESULT"

\* StreamParser.parse on a decoded record (a dict): the tag of the event it
\* returns, "none", or "raise".
StreamParser_parse(data) ==
    LET event_type == Get(data, "type", JNull)
    IN  IF event_type = JStr("system") THEN _parse_system(data)
        ELSE IF event_type = JStr("stream_event") THEN _parse_stream_event(data)
        ELSE IF event_type = JStr("assistant") THEN _parse_assistant(data)
        ELSE IF event_type = JStr("user") THEN _parse_user(data)
        ELSE IF event_type = JStr("result") THEN _parse_result(data)
        ELSE "none"

\* The records tried.  Blocks with and without a type, and blocks that are
\* not dicts; content that is a list of blocks or another JSON value;
\* containers that are missing, null or of another kind.
Records ==
    LET TypedDicts(types) == {JDict(<<>>)} \cup {JDict([type |-> JStr(t)]) : t \in types}
        BlockValues ==
            TypedDicts({"text", "tool_use", "tool_result"}) \cup {JStr("x"), JNull}
        BlockLists ==
            {<<>>} \cup {<<b>> : b \in BlockValues}
                   \cup {<<b, c>> : b \in BlockValues, c \in BlockValues}
        ContentValues ==
            {JList(bs) : bs \in BlockLists}
                \cup {JNull, JNum, JStr(""), JStr("x"), JDict(<<>>),
                      JDict([type |-> JStr("tool_use")])}
        MessageValues ==
            {JNull, JStr("x"), JDict(<<>>)} \cup {JDict([content |-> c]) : c \in ContentValues}
        InnerValues ==
            {JNull, JStr("x"), JDict(<<>>), JDict([type |-> JStr("message_stop")])}
                \cup {JDict([type |-> JStr("content_block_delta"), delta |-> d]) :
                         d \in TypedDicts({"text_delta", "input_json_delta"}) \cup {JNull}}
                \cup {JDict([type |-> JStr("content_block_delta")])}
                \cup {JDict([type |-> JStr("content_block_start"), content_block |-> b]) :
                         b \in TypedDicts({"tool_use", "text"}) \cup {JNull}}
                \cup {JDict([type |-> JStr("content_block_start")])}
    IN  {JDict(<<>>), JDict([type |-> JNum]), JDict([type |-> JStr("other")]),
         JDict([type |-> JStr("result")]), JDict([type |-> JStr("system")]),
         JDict([type |-> JStr("system"), subtype |-> JStr("init")]),
         JDict([type |-> JStr("system"), subtype |-> JStr("hook_started")]),
         JDict([type |-> JStr("stream_event")]), JDict([type |-> JStr("assistant")]),
         JDict([type |-> JStr("user")])}
            \cup {JDict([type |-> JStr("stream_event"), event |-> e]) : e \in InnerValues}
            \cup {JDict([type |-> JStr(t), message |-> m]) :
                     t \in {"assistant", "user"}, m \in MessageValues}

InitParser ==
    /\ process = "none" /\ child = NoChild /\ nchild = 0 /\ reader = NoReader
    /\ queue = <<>>
    /\ call \in {[op |-> "none", arg |-> data, ret |-> ""] : data \in Records}
    /\ session_id = 0 /\ buffer = <<>> /\ buffer_photos = <<>> /\ buffer_docs = <<>>
    /\ debounce_task = 0 /\ stream = 0 /\ drv = [d \in Drivers |-> IdleDrv]
    /\ ndrv = 0 /\ hpc = IdleHandler /\ ninject = 0 /\ lasty = NoYield
    /\ hw = [c \in 1..MaxChildren |-> 0] /\ lastEnd = NoEnd /\ arrived = <<>>

\* One call of StreamParser.parse.
CallParse ==
    /\ call.op = "none"
    /\ call' = [op |-> "parse", arg |-> call.arg, ret |-> StreamParser_parse(call.arg)]
    /\ UNCHANGED <<process, child, nchild, reader, queue, session_id, bufVars,
                   debounce_task, stream, drv, ndrv, hpc, ninject, lasty, hw, lastEnd,
                   arrived>>

NextParser == CallParse

SpecParser == InitParser /\ [][NextParser]_vars

\* -------------------------------------------- runner entry points (runner.py)
\* inject() and run() applied to a runner whose child may have closed its end
\* of the stdin pipe before its exit status is collected.  st is the runner:
\* process ("none" | "child"), returncode of that child ("None" | "set"),
\* broken (the pipe to the child's stdin is closed at the other end), stdin
\* (the lines handed to stdin.write of the current child), queue, session_id,
\* resume (the --resume value of the current child), nchild, reader.
Prompts == {<<"a">>, <<"a", NewLine, "\"">>}

\* json.dumps of a string, ensure_ascii=False: quotes around the text, with
\* line feed, quote and backslash escaped.
RECURSIVE json_dumps(_)
json_dumps(text) ==
    IF text = <<>> THEN <<>>
    ELSE (CASE Head(text) = NewLine -> <<"\\", "n">>
            [] Head(text) = "\"" -> <<"\\", "\"">>
            [] Head(text) = "\\" -> <<"\\", "\\">>
            [] OTHER -> <<Head(text)>>) \o json_dumps(Tail(text))

\* _send_stdin, the message: the user record around the prompt, and "\n".
UserLine(text) == <<"{", "\"">> \o json_dumps(text) \o <<"\"", "}", NewLine>>

\* Variant of ProcessAlive that only looks at the reference.
ProcessReferenced(st) == st.process # "none"

\* process_alive for a runner record: a child is referenced and its
\* returncode is None.
ProcessAlive(st) == st.process # "none" /\ st.returncode = "None"

\* _send_stdin: RuntimeError without a live child; else one write of the
\* line and drain(), which raises a pipe error when the pipe is broken.
_send_stdin(st, text) ==
    IF ~ProcessAlive(st) THEN [st |-> st, exc |-> "RuntimeError"]
    ELSE [st |-> [st EXCEPT !.stdin = Append(@, UserLine(text))],
          exc |-> IF st.broken THEN "pipe" ELSE "none"]

\* inject(prompt).
inject(st, text) ==
    IF ~ProcessAlive(st) THEN [st |-> st, exc |-> "RuntimeError"]
    ELSE _send_stdin(st, text)

\* _ensure_process: nothing with a live child; else the old reader task is
\* cancelled, the queue is emptied and a child is started with the remembered
\* session as --resume, together with its reader task.
_ensure_process(st) ==
    IF ProcessAlive(st) THEN st
    ELSE [st EXCEPT !.process = "child", !.returncode = "None", !.broken = FALSE,
                    !.stdin = <<>>, !.queue = <<>>, !.resume = st.session_id,
                    !.nchild = @ + 1, !.reader = "running"]

\* The child reference of a runner record in the terms of RunFinally.
ProcessOf(st) ==
    IF st.process = "none" THEN "none"
    ELSE IF st.returncode = "None" THEN "alive" ELSE "exited"

\* run(), finally, on a runner record.
RunnerFinally(st) ==
    IF RunFinally(ProcessOf(st)) = "none"
      THEN [st EXCEPT !.process = "none", !.returncode = "None", !.broken = FALSE]
      ELSE st

\* The runner states the entry points are applied to.  An _EOF is enqueued
\* only after the exit status was collected; a runner that never started a
\* child has an empty queue and no session.
RunnerStates ==
    LET ev == RunnerEvent("TEXT_DELTA", 1, 1, 1)
        all == [process : {"none", "child"}, returncode : {"None", "set"},
                broken : BOOLEAN, stdin : {<<>>},
                queue : {<<>>, <<ev>>, <<EOFSentinel(FALSE, 1)>>, <<ev, EOFSentinel(TRUE, 1)>>},
                session_id : 0..1, resume : {0}, nchild : 0..1,
                reader : {"none", "running", "done"}]
        hasEOF(q) == \E i \in DOMAIN q : q[i].k = "EOF"
    IN {st \in all :
          /\ st.process = "none" => st.returncode = "None" /\ ~st.broken
          /\ st.process = "child" => st.nchild = 1 /\ st.reader # "none"
          /\ st.returncode = "set" => st.broken
          /\ st.nchild = 0 => st.queue = <<>> /\ st.session_id = 0 /\ st.reader = "none"
          /\ hasEOF(st.queue) => ~ProcessAlive(st) /\ st.nchild = 1 /\ st.reader = "done"
          /\ st.reader = "done" => hasEOF(st.queue) \/ st.process = "none"
          /\ st.reader = "running" => st.process = "child"}

InitRunner ==
    /\ process = "none" /\ child = NoChild /\ nchild = 0 /\ reader = NoReader
    /\ queue = <<>>
    /\ call \in {[op |-> "none", pc |-> "idle", st |-> st, before |-> st, exc |-> "none",
                  out |-> <<>>, text |-> <<>>, n |-> 0] : st \in RunnerStates}
    /\ session_id = 0 /\ buffer = <<>> /\ buffer_photos = <<>> /\ buffer_docs = <<>>
    /\ debounce_task = 0 /\ stream = 0 /\ drv = [d \in Drivers |-> IdleDrv]
    /\ ndrv = 0 /\ hpc = IdleHandler /\ ninject = 0 /\ lasty = NoYield
    /\ hw = [c \in 1..MaxChildren |-> 0] /\ lastEnd = NoEnd /\ arrived = <<>>

\* One step of the runner record: everything else stays as constructed.
RunnerStep(r) ==
    /\ call' = r
    /\ UNCHANGED <<process, child, nchild, reader, queue, session_id, bufVars,
                   debounce_task, stream, drv, ndrv, hpc, ninject, lasty, hw, lastEnd,
                   arrived>>

\* A collaborator calls inject(prompt) while no run() is in progress or while
\* one is waiting for events.
CallInject ==
    /\ call.n < MaxCalls
    /\ call.pc \in {"idle", "read"}
    /\ \E text \in Prompts :
         LET r == inject(call.st, text)
         IN RunnerStep([call EXCEPT !.op = "inject", !.before = call.st, !.st = r.st,
                                    !.exc = r.exc, !.out = <<>>, !.text = text,
                                    !.n = @ + 1])

\* run(prompt) up to the end of _send_stdin: _ensure_process, _drain_pending,
\* the write.  A pipe error is caught: one synthetic TEXT_DELTA, then the
\* finally block.  A RuntimeError leaves run() through the finally block.
CallRun ==
    /\ call.n < MaxCalls
    /\ call.pc = "idle"
    /\ \E text \in Prompts, gone \in BOOLEAN :
         LET s1 == _ensure_process(call.st)
             s2 == [s1 EXCEPT !.queue = _drain_pending(@), !.broken = @ \/ gone]
             r == _send_stdin(s2, text)
         IN RunnerStep([call EXCEPT
                !.op = "run", !.before = call.st, !.text = text, !.n = @ + 1,
                !.exc = r.exc,
                !.out = IF r.exc = "pipe" THEN <<Synthetic("pipe")>> ELSE <<>>,
                !.pc = IF r.exc = "none" THEN "read" ELSE "idle",
                !.st = IF r.exc = "none" THEN r.st ELSE RunnerFinally(r.st)])

\* The iterator of a run() that wrote its prompt ends (RESULT, sentinel or
\* timeout): the finally block.
RunReturns ==
    /\ call.pc = "read"
    /\ RunnerStep([call EXCEPT !.op = "run_end", !.pc = "idle", !.before = call.st,
                               !.st = RunnerFinally(call.st), !.exc = "none"])

\* The child closes its end of the stdin pipe (it exits, or stops reading).
PipeCloses ==
    /\ call.pc \in {"idle", "read"}
    /\ ProcessAlive(call.st) /\ ~call.st.broken
    /\ RunnerStep([call EXCEPT !.op = "env", !.before = call.st, !.st.broken = TRUE])

\* The exit status of a child that is gone is collected: returncode is set,
\* and its reader, at end of file, enqueues the _EOF.
StatusCollected ==
    /\ call.pc \in {"idle", "read"}
    /\ call.st.process = "child" /\ call.st.broken /\ call.st.returncode = "None"
    /\ RunnerStep([call EXCEPT !.op = "env", !.before = call.st,
                     !.st.returncode = "set",
                     !.st.reader = IF @ = "running" THEN "done" ELSE @,
                     !.st.queue = IF call.st.reader = "running"
                                    THEN Enqueue(@, EOFSentinel(FALSE, call.st.nchild))
                                    ELSE @])

NextRunner == CallInject \/ CallRun \/ RunReturns \/ PipeCloses \/ StatusCollected

SpecRunner == InitRunner /\ [][NextRunner]_vars

\* ------------------------------------------ tool-server discovery (runner.py)
\* A configuration file is missing, not JSON, JSON of another shape than a
\* dict with a dict of servers, or names a set of servers (1..MaxServers).
ServerNames == 1..MaxServers

ConfigFiles ==
    {[kind |-> k, servers |-> {}] : k \in {"missing", "malformed", "other_shape"}}
        \cup {[kind |-> "servers", servers |-> S] : S \in SUBSET ServerNames}

\* sorted() of a set of names.
Sorted(S) ==
    CHOOSE q \in [1..Cardinality(S) -> S] :
        \A i \in 1..Cardinality(S), j \in 1..Cardinality(S) : i < j => q[i] < q[j]

\* _discover_mcp_servers(work_dir): the names in ~/.claude.json and in
\* work_dir/.mcp.json together, each as "mcp__" + name, sorted.  A file that
\* is missing or not JSON contributes nothing; JSON of another shape raises
\* (data.get on a list, iteration over null).
_discover_mcp_servers(home, project) ==
    IF home.kind = "other_shape" \/ project.kind = "other_shape" THEN <<"raise">>
    ELSE [i \in 1..Cardinality(home.servers \cup project.servers) |->
            <<"mcp__", Sorted(home.servers \cup project.servers)[i]>>]

\* A call binds its keyword arguments to the parameters of the function;
\* a keyword the signature does not have raises TypeError.
Accepts(parameters, keywords) == keywords \subseteq parameters

\* ClaudeRunner.__init__(work_dir, model, max_budget): the attributes set.
ClaudeRunner_init(keywords) ==
    IF ~Accepts({"work_dir", "model", "max_budget"}, keywords) THEN <<"raise">>
    ELSE <<"work_dir", "model", "max_budget", "session_id", "process", "is_processing",
           "_parser", "_event_queue", "_reader_task">>

InitDiscover ==
    /\ process = "none" /\ child = NoChild /\ nchild = 0 /\ reader = NoReader
    /\ queue = <<>>
    /\ call \in {[op |-> "none", home |-> h, project |-> p, config |-> c,
                  keywords |-> {}, ret |-> <<>>] :
                    h \in ConfigFiles, p \in ConfigFiles, c \in ConfigFiles}
    /\ session_id = 0 /\ buffer = <<>> /\ buffer_photos = <<>> /\ buffer_docs = <<>>
    /\ debounce_task = 0 /\ stream = 0 /\ drv = [d \in Drivers |-> IdleDrv]
    /\ ndrv = 0 /\ hpc = IdleHandler /\ ninject = 0 /\ lasty = NoYield
    /\ hw = [c \in 1..MaxChildren |-> 0] /\ lastEnd = NoEnd /\ arrived = <<>>

\* _discover_mcp_servers is called with the working directory, and with or
\* without the keyword mcp_config.
CallDiscover ==
    /\ call.op = "none"
    /\ \E keywords \in {{"work_dir"}, {"work_dir", "mcp_config"}} :
         call' = [call EXCEPT
                    !.op = "_discover_mcp_servers", !.keywords = keywords,
                    !.ret = IF Accepts({"work_dir"}, keywords)
                              THEN _discover_mcp_servers(call.home, call.project)
                              ELSE <<"raise">>]
    /\ UNCHANGED <<process, child, nchild, reader, queue, session_id, bufVars,
                   debounce_task, stream, drv, ndrv, hpc, ninject, lasty, hw, lastEnd,
                   arrived>>

\* A ClaudeRunner is constructed.
NewRunner ==
    /\ call.op = "none"
    /\ \E extra \in SUBSET {"model", "mcp_config", "mcp_exclude"} :
         call' = [call EXCEPT !.op = "ClaudeRunner", !.keywords = {"work_dir"} \cup extra,
                              !.ret = ClaudeRunner_init({"work_dir"} \cup extra)]
    /\ UNCHANGED <<process, child, nchild, reader, queue, session_id, bufVars,
                   debounce_task, stream, drv, ndrv, hpc, ninject, lasty, hw, lastEnd,
                   arrived>>

NextDiscover == CallDiscover \/ NewRunner

SpecDiscover == InitDiscover /\ [][NextDiscover]_vars

\* ---------------------------------------------------- event routing (bot.py)
\* The body of the "async for event in self.runner.run(prompt)" loop applied
\* to one event as the parser builds it: text, tool_input come from the
\* record unchanged, so they are JSON values of any kind.
ToolNames == {"Read", "Task"}

TextValues == {JStr(""), JStr("x"), JList(<<JDict([type |-> JStr("text")])>>), JNull}

InputValues == {JDict(<<>>), JDict([file_path |-> JStr("x")]), JNull}

Durations == {0, 999, 1500}

ParsedEvent(type, text, tool_name, tool_input, duration_ms, num_turns) ==
    [type |-> type, text |-> text, tool_name |-> tool_name, tool_input |-> tool_input,
     duration_ms |-> duration_ms, num_turns |-> num_turns]

\* The events of each type with the fields the parser fills in; the other
\* fields keep the defaults of the dataclass.
ParsedEvents ==
    {ParsedEvent("INIT", JStr(""), "", JDict(<<>>), 0, 0)}
        \cup {ParsedEvent("TEXT_DELTA", t, "", JDict(<<>>), 0, 0) : t \in TextValues}
        \cup {ParsedEvent("TOOL_START", JStr(""), n, JDict(<<>>), 0, 0) : n \in ToolNames}
        \cup {ParsedEvent("TOOL_USE", JStr(""), n, i, 0, 0) : n \in ToolNames, i \in InputValues}
        \cup {ParsedEvent("TOOL_RESULT", t, "", JDict(<<>>), 0, 0) : t \in TextValues}
        \cup {ParsedEvent("RESULT", t, "", JDict(<<>>), d, n) :
                 t \in TextValues, d \in Durations, n \in 1..2}

\* format_tool_call: the path tools read input_data.get("file_path", "") and
\* test "/" in path; the other tools of ToolNames never touch input_data.
format_tool_call(name, input_data) ==
    IF name \in {"Read", "Edit", "Write"}
      THEN LET path == Get(input_data, "file_path", JStr(""))
           IN  IF path.j \in {"raise", "null", "num"} THEN Raised
               ELSE [j |-> "line", s |-> name, items |-> <<path>>, f |-> <<>>]
      ELSE [j |-> "line", s |-> name, items |-> <<>>, f |-> <<>>]

\* format_tool_result: result[:max_length] needs a string or a list, and
\* escape_html(text) calls text.replace, which only a string has.
format_tool_result(result) ==
    LET text == IF result.j \in {"str", "list"} THEN result ELSE Raised
    IN  IF text.j # "str" THEN Raised
        ELSE [j |-> "html", s |-> result.s, items |-> <<>>, f |-> <<>>]

RendererCall(method, arg) == [m |-> method, arg |-> arg]

Footer(duration, num_turns) ==
    [j |-> "footer", s |-> "", items |-> <<duration, num_turns>>, f |-> <<>>]

NoRoute == [calls |-> <<>>, exc |-> FALSE]

\* One pass of the loop body: the calls made on the renderer, and whether an
\* exception left the body before or instead of a call.
RouteEvent(event, verbose) ==
    IF event.type = "TEXT_DELTA"
      THEN [calls |-> <<RendererCall("push_text", event.text)>>, exc |-> FALSE]
    ELSE IF event.type = "TOOL_USE"
      THEN LET line == format_tool_call(event.tool_name, event.tool_input)
           IN  IF line = Raised THEN [calls |-> <<>>, exc |-> TRUE]
               ELSE [calls |-> <<RendererCall("push_tool_call", line)>>, exc |-> FALSE]
    ELSE IF event.type = "TOOL_RESULT" /\ verbose
      THEN LET html == format_tool_result(event.text)
           IN  IF html = Raised THEN [calls |-> <<>>, exc |-> TRUE]
               ELSE [calls |-> <<RendererCall("push_tool_result", html)>>, exc |-> FALSE]
    ELSE IF event.type = "RESULT"
      THEN [calls |-> <<RendererCall("finalize",
                                     Footer(event.duration_ms \div 1000, event.num_turns))>>,
            exc |-> FALSE]
    ELSE NoRoute

InitRoute ==
    /\ process = "none" /\ child = NoChild /\ nchild = 0 /\ reader = NoReader
    /\ queue = <<>>
    /\ call \in {[op |-> "none", event |-> e, verbose |-> v, ret |-> NoRoute] :
                    e \in ParsedEvents, v \in BOOLEAN}
    /\ session_id = 0 /\ buffer = <<>> /\ buffer_photos = <<>> /\ buffer_docs = <<>>
    /\ debounce_task = 0 /\ stream = 0 /\ drv = [d \in Drivers |-> IdleDrv]
    /\ ndrv = 0 /\ hpc = IdleHandler /\ ninject = 0 /\ lasty = NoYield
    /\ hw = [c \in 1..MaxChildren |-> 0] /\ lastEnd = NoEnd /\ arrived = <<>>

\* One event taken from runner.run() and routed.
CallRoute ==
    /\ call.op = "none"
    /\ call' = [call EXCEPT !.op = "route", !.ret = RouteEvent(call.event, call.verbose)]
    /\ UNCHANGED <<process, child, nchild, reader, queue, session_id, bufVars,
                   debounce_task, stream, drv, ndrv, hpc, ninject, lasty, hw, lastEnd,
                   arrived>>

NextRoute == CallRoute

SpecRoute == InitRoute /\ [][NextRoute]_vars

\* =============================================================== properties
\* Helpers of the properties, independent of the runner's operators.
IsResult(x) == x.k = "ev" /\ x.type = "RESULT"

IsSentinel(x) == x.k \in {"EOF", "Error"}

ResultsIn(s) == Cardinality({i \in DOMAIN s : IsResult(s[i])})

\* The least index of the set I (0 when I is empty).
FirstIn(I) == IF I = {} THEN 0 ELSE CHOOSE i \in I : \A j \in I : i <= j

FirstResult(q) == FirstIn({i \in DOMAIN q : IsResult(q[i])})

FirstTerminator(q) == FirstIn({i \in DOMAIN q : IsResult(q[i]) \/ IsSentinel(q[i])})

\* C1 as stated: for every queue content, one iteration yields the queued
\* events in order up to and including the first RESULT, exactly one RESULT,
\* and leaves everything after that RESULT in the queue in order.
C1_ExactlyOneResult ==
    call.op = "_read_until_result" =>
        LET k == FirstResult(call.arg)
        IN /\ ResultsIn(call.ret) = 1
           /\ call.ret = SubSeq(call.arg, 1, k)
           /\ queue = SubSeq(call.arg, k + 1, Len(call.arg))

\* C1 amended: one iteration yields the queued events in order up to the first
\* RESULT or sentinel; it yields exactly one RESULT, as its last event, when a
\* RESULT comes first, and no RESULT when a sentinel comes first or the
\* content runs out (timeout); everything after the item that ended the
\* iteration is still queued in order.
C1_UpToFirstTerminator ==
    call.op = "_read_until_result" =>
        LET k == FirstTerminator(call.arg)
            n == Len(call.ret)
        IN IF k = 0
             THEN /\ SubSeq(call.ret, 1, n - 1) = call.arg
                  /\ call.ret[n].syn = "timeout"
                  /\ ResultsIn(call.ret) = 0
                  /\ queue = <<>>
             ELSE /\ SubSeq(call.ret, 1, k - 1) = SubSeq(call.arg, 1, k - 1)
                  /\ queue = SubSeq(call.arg, k + 1, Len(call.arg))
                  /\ IF IsResult(call.arg[k])
                       THEN /\ call.ret = SubSeq(call.arg, 1, k)
                            /\ ResultsIn(call.ret) = 1
                       ELSE /\ ResultsIn(call.ret) = 0
                            /\ n \in {k - 1, k}
                            /\ n = k => call.ret[k].syn \in {"eof", "reader"}

\* An iteration that ended on a RESULT after other events and left items queued.
C1_Witness ==
    /\ call.op = "_read_until_result"
    /\ Len(call.ret) >= 2
    /\ IsResult(call.ret[Len(call.ret)])
    /\ queue # <<>>

\* C7: a drain of a queue content that holds an EOF sentinel leaves exactly
\* that sentinel and nothing else; a drain of a content without one leaves
\* the queue empty.
C7_DrainKeepsEOF ==
    call.op = "_drain_pending" =>
        LET eofs == {i \in DOMAIN call.arg : call.arg[i].k = "EOF"}
        IN IF eofs # {}
             THEN /\ Len(queue) = 1
                  /\ \E i \in eofs : queue[1] = call.arg[i]
                  /\ Cardinality(eofs) = 1
             ELSE queue = <<>>

\* A drain that dropped events and kept the EOF sentinel behind them.
C7_Witness ==
    /\ call.op = "_drain_pending"
    /\ Len(call.arg) >= 2
    /\ call.arg[Len(call.arg)].k = "EOF"
    /\ queue = <<call.arg[Len(call.arg)]>>

\* ------------------------------------------------- coordinator properties
Range(s) == {s[i] : i \in DOMAIN s}

\* The inputs held by a flush record (0, the literal "/compact", is no input).
IdsOf(r) == (Range(r.texts) \cup Range(r.photos) \cup Range(r.docs)) \ {0}

\* The ids of the entries of kind k of the arrival history h, in order.
RECURSIVE ArrivedOf(_, _)
ArrivedOf(h, k) ==
    IF h = <<>> THEN <<>>
    ELSE (IF Head(h)[1] = k THEN <<Head(h)[2]>> ELSE <<>>) \o ArrivedOf(Tail(h), k)

\* Flush d passes its empty check in this step.
FlushBegins(d) ==
    /\ drv[d].pc \in {"sleep", "idle"}
    /\ drv'[d].pc \in {"busy_send", "stream_start"}

\* C2: a flush of a non-empty buffer while runner.is_running is true makes no
\* call to runner.run, sends the busy message, and its snapshot is dropped:
\* the refused inputs are in no buffer and in no other flush afterwards.
C2_TurnGate ==
    [][\A d \in Drivers :
         /\ (FlushBegins(d) /\ is_running) =>
                /\ drv'[d].pc = "busy_send"
                /\ drv'[d].live = FALSE
                /\ <<child, nchild, queue, process>>' = <<child, nchild, queue, process>>
                /\ buffer' = <<>> /\ buffer_photos' = <<>> /\ buffer_docs' = <<>>
         /\ drv[d].pc = "busy_send" =>
                /\ drv'[d].pc \in {"busy_send", "done", "failed"}
                /\ \A e \in Drivers \ {d} : IdsOf(drv'[e]) \cap IdsOf(drv[d]) = {}
                /\ (Range(buffer') \cup Range(buffer_photos') \cup Range(buffer_docs'))
                       \cap IdsOf(drv[d]) = {}]_vars

\* A refused flush that is sending the busy message while the turn goes on.
C2_Witness ==
    \E d \in Drivers : drv[d].pc = "busy_send" /\ IdsOf(drv[d]) # {} /\ is_running

\* C3: at no time are two turn drivers inside runner.run.
C3_OneConsumer == Cardinality({d \in Drivers : drv[d].pc \in RunPcs}) <= 1

\* C4: buffered input always has an armed debounce timer behind it (else no
\* flush follows the last input).
C4_BufferedInputHasTimer ==
    (hpc.op = "idle" /\ (buffer # <<>> \/ buffer_photos # <<>> \/ buffer_docs # <<>>)) =>
        (debounce_task # 0 /\ drv[debounce_task].pc = "sleep")

\* C5: a flush copies and empties the three buffers in one step, its snapshot
\* is exactly what arrived since the previous flush began, in arrival order,
\* and stays unchanged for the whole turn, whatever arrives meanwhile.
C5_SnapshotIsolation ==
    [][\A d \in Drivers :
         /\ FlushBegins(d) =>
                /\ buffer' = <<>> /\ buffer_photos' = <<>> /\ buffer_docs' = <<>>
                /\ drv'[d].texts = ArrivedOf(arrived, "text")
                                   \o (IF drv'[d].kind = "handler" THEN <<0>> ELSE <<>>)
                /\ drv'[d].photos = ArrivedOf(arrived, "photo")
                /\ drv'[d].docs = ArrivedOf(arrived, "document")
         /\ (drv[d].pc \in TurnPcs /\ drv'[d].pc \in TurnPcs) =>
                /\ drv'[d].texts = drv[d].texts
                /\ drv'[d].photos = drv[d].photos
                /\ drv'[d].docs = drv[d].docs]_vars

\* An input arrived after a flush had begun (its arrival ended that flush);
\* the next flush has begun and its snapshot holds that input alone.
C5_Witness ==
    /\ lastEnd.how = "cancelled"
    /\ lastEnd.at \in TurnPcs
    /\ \E d \in Drivers \ {lastEnd.d} :
          /\ drv[d].pc \in TurnPcs \cup {"busy_send"}
          /\ drv[d].texts = <<d>>
          /\ buffer = <<>>

\* ------------------------------------------------------ runner properties
\* C6: the events of one child are yielded in the order the pump enqueued
\* them: the output position of the child's last yielded event only grows.
C6_OrderPreserved ==
    [][\A c \in 1..MaxChildren : hw'[c] # hw[c] => hw'[c] > hw[c]]_vars

\* Three events of one child have been yielded.
C6_Witness == \E c \in 1..MaxChildren : hw[c] >= 3

\* The turn ids of the prompts written by inject().
InjectTurns == (MaxDrv + 1)..(MaxDrv + MaxInject)

\* C8: run(p) never yields an event the child produced for another prompt; in
\* particular none that answers an injected prompt.
C8_NoInjectedEventInRun == lasty.ev.turn \notin InjectTurns

C10_TurnHasPump ==
    \A d \in Drivers :
        (drv[d].pc = "read" /\ process_alive /\ queue = <<>>) => reader.st = "running"

\* Flush d leaves its read loop in this step although the queue is empty and
\* no re-armed debounce cancelled it: the per-item timeout has expired.
TimesOut(d) ==
    /\ drv[d].pc = "read"
    /\ drv'[d].pc # "read"
    /\ queue = <<>>
    /\ debounce_task' = debounce_task

CancelLike ==
    /\ \A d \in Drivers : drv'[d].pc = drv[d].pc
    /\ <<ndrv, hpc, queue, ninject, debounce_task>>' = <<ndrv, hpc, queue, ninject, debounce_task>>
    /\ child' \in {child, NoChild}
    /\ process' \in {process, "none"}

\* A step of cmd_cancel / handle_cancel_callback past the "Nothing running" reply.
CancelStep == is_running /\ CancelLike

\* A turn that has yielded at least one event and is still being iterated.
TurnWithEvent(d) == drv[d].pc = "read" /\ drv[d].live /\ lasty.d = d

\* C12: a cancel during an active turn that has yielded an event ends the
\* reader task, kills the child, clears the child reference, makes
\* is_running false and leaves session_id unchanged; the next run() starts a
\* fresh child whose resume flag is the remembered session_id.
C12_CancelActiveTurn ==
    [][/\ (CancelStep /\ \E d \in Drivers : TurnWithEvent(d)) =>
             /\ reader' = NoReader
             /\ child' = NoChild
             /\ process' = "none"
             /\ ~is_running'
             /\ session_id' = session_id
       /\ \A d \in Drivers :
            /\ (drv[d].pc = "stream_start" /\ drv'[d].pc \in RunPcs /\ process = "none") =>
                   /\ drv'[d].pc = "spawn"
                   /\ drv'[d].resume = session_id
            /\ (drv[d].pc = "spawn" /\ drv'[d].pc = "stdin_drain") =>
                   /\ child'.id = nchild + 1
                   /\ child'.id # child.id
                   /\ child'.resume = drv[d].resume]_vars

\* A turn was cancelled after its first events and the next turn runs on a
\* second child started with the remembered session id.
C12_Witness ==
    /\ nchild = 2
    /\ process_alive
    /\ child.resume # 0
    /\ child.resume = session_id
    /\ \E d \in Drivers : drv[d].cfin = 1 /\ lasty.d = d

\* C13: once runner.cancel() has completed, a turn iterator that waits on the
\* queue finds an EOF sentinel there that ends it.
C13_CancelledTurnGetsEOF ==
    \A d \in Drivers :
        (drv[d].pc = "read" /\ process = "none" /\ reader = NoReader) =>
            \E i \in DOMAIN queue : queue[i].k = "EOF"

C15_FreshConversationAfterClear ==
    [][\A d \in Drivers :
         (drv[d].pc = "stream_start" /\ drv'[d].pc = "stdin_drain" /\ session_id = 0) =>
             ~child.inited]_vars

\* Everything but session_id is unchanged.
OnlySessionChanges ==
    <<process, child, nchild, reader, queue, buffer, buffer_photos, buffer_docs,
      debounce_task, stream, drv, ndrv, hpc, ninject, lasty, hw, lastEnd, arrived, call>>'
    = <<process, child, nchild, reader, queue, buffer, buffer_photos, buffer_docs,
        debounce_task, stream, drv, ndrv, hpc, ninject, lasty, hw, lastEnd, arrived, call>>

\* C16: session_id is null initially; it takes a value only when the running
\* pump enqueues an INIT or RESULT of the live child, whose id it takes; it
\* becomes null only by clear_session (the /clear handler, or the timeout
\* check of a flush); a child is started with the resume flag equal to the
\* session_id read when its command line is built (none when it is null).
C16_SessionLifecycle ==
    [][/\ (ndrv = 0 /\ nchild = 0) => session_id = 0
       /\ (session_id' # session_id /\ session_id' # 0) =>
             /\ reader.st = "running" /\ process_alive
             /\ session_id' = child.sid
             /\ Len(queue') = Len(queue) + 1
             /\ queue'[Len(queue')].type \in {"INIT", "RESULT"}
             /\ queue'[Len(queue')].c = child.id
       /\ (session_id' # session_id /\ session_id' = 0) =>
             \/ OnlySessionChanges
             \/ \E d \in Drivers : FlushBegins(d)
       /\ \A d \in Drivers :
            /\ (drv[d].pc = "stream_start" /\ drv'[d].pc = "spawn") =>
                   drv'[d].resume = session_id
            /\ (drv[d].pc = "spawn" /\ drv'[d].pc = "stdin_drain") =>
                   /\ nchild' = nchild + 1
                   /\ child'.resume = drv[d].resume
                   /\ child'.sid = IF drv[d].resume # 0 THEN drv[d].resume ELSE child'.id
            /\ nchild' # nchild => (drv[d].pc = "spawn" \/ drv'[d] = drv[d])]_vars

\* The session was set by a first child, cleared, and a second child was
\* started without the resume flag.
C16_Witness ==
    /\ nchild = 2
    /\ hw[1] >= 1
    /\ process_alive
    /\ child.resume = 0
    /\ child.inited
    /\ session_id = child.sid

\* The state after the three resets of the timeout check.
SessionReset(st) == [st EXCEPT !.session_id = 0, !.media = 0, !.cost = 0]

\* C17 as stated: with a session remembered and an idle time of at least
\* session_timeout (the boundary included) the check clears the session,
\* purges the media and resets the cost; otherwise it changes nothing.
C17_ClearsFromBoundary ==
    call.op = "_check_session_timeout" =>
        call.ret = IF call.arg.session_id # 0 /\ call.arg.elapsed >= call.arg.timeout
                     THEN SessionReset(call.arg) ELSE call.arg

\* C17 amended: the three resets happen exactly when a session is remembered
\* and the idle time is strictly greater than session_timeout; at the
\* boundary and below, nothing is changed.
C17_ClearsPastTimeout ==
    call.op = "_check_session_timeout" =>
        call.ret = IF call.arg.session_id # 0 /\ call.arg.elapsed > call.arg.timeout
                     THEN SessionReset(call.arg) ELSE call.arg

\* A check that cleared a session with cost and media after the timeout.
C17_Witness ==
    /\ call.op = "_check_session_timeout"
    /\ call.arg.session_id # 0 /\ call.arg.cost > 0 /\ call.arg.media > 0
    /\ call.arg.elapsed > call.arg.timeout
    /\ call.ret = SessionReset(call.arg)

\* C18: every chunk frozen by complete_current, and every value it returns,
\* is at most max_length characters long, whatever appends came before.
C18_ChunkBound ==
    /\ \A i \in DOMAIN call.chain.chunks : Len(call.chain.chunks[i]) <= call.chain.max_length
    /\ call.op = "complete_current" => Len(call.ret) <= call.chain.max_length

\* A second complete_current that cut an over-long buffer, froze a chunk of
\* exactly max_length characters and left a remainder.
C18_Witness ==
    /\ call.op = "complete_current"
    /\ Len(call.chain.chunks) >= 2
    /\ Len(call.ret) = call.chain.max_length
    /\ call.chain.current # <<>>

\* C19 as stated: immediately after any complete_current call the buffer is
\* at most max_length long, whatever its length was before the call.
C19_CurrentBounded ==
    call.op = "complete_current" => Len(call.chain.current) <= call.chain.max_length

\* The number of newlines a string starts with.
RECURSIVE LeadingNewlines(_)
LeadingNewlines(text) ==
    IF text # <<>> /\ Head(text) = NewLine THEN 1 + LeadingNewlines(Tail(text)) ELSE 0

\* inputs is chunks[1], chunks[2], ..., current in this order, with nothing
\* but newlines left out, and those only where one chunk ends.
RECURSIVE SplitsOf(_, _, _)
SplitsOf(chunks, current, inputs) ==
    IF chunks = <<>> THEN current = inputs
    ELSE LET h == Head(chunks)
             rest == Suffix(inputs, Len(h))
         IN  /\ Len(h) <= Len(inputs)
             /\ Prefix(inputs, Len(h)) = h
             /\ \E k \in 0..LeadingNewlines(rest) :
                    SplitsOf(Tail(chunks), current, Suffix(rest, k))

\* C20: the completed chunks followed by the buffer are the appended inputs
\* (tool calls with their newline padding), except for newlines trimmed where
\* a chunk was cut off; no other character is lost, duplicated or reordered.
C20_TextPreserved == SplitsOf(call.chain.chunks, call.chain.current, call.inputs)

\* A split after a tool call that trimmed a newline at the cut and kept a
\* non-empty remainder.
C20_Witness ==
    /\ call.op = "complete_current"
    /\ \E i \in DOMAIN call.inputs : call.inputs[i] = "t"
    /\ call.chain.current # <<>>
    /\ Len(call.chain.chunks[1]) + Len(call.chain.current) < Len(call.inputs)
    /\ Len(call.chain.chunks) = 1

\* ceil(a / b)
CeilDiv(a, b) == (a + b - 1) \div b

\* C21: when a turn is over (no platform call having failed, the finalize of
\* line 233 left aside), its Renderer has issued exactly one edit without
\* keyboard, that edit is the last one, and every edit with the keyboard went
\* to the tail message.
C21_SingleFinalize ==
    (call.pc = "done" /\ call.fails = 0 /\ ~call.safety) =>
        (call.kbnone = 1 /\ call.lastkb = "none" /\ ~call.nontail)

\* C22: (no platform call having failed, the finalize of line 233 left
\* aside) only current_message carries the cancel keyboard, and after
\* finalize no message of the chain carries it.
C22_KeyboardOnTailOnly ==
    (call.fails = 0 /\ ~call.safety) =>
        /\ \A i \in DOMAIN call.msgs : call.msgs[i].kb => i = call.current_msg
        /\ call.finalized => \A i \in DOMAIN call.msgs : ~call.msgs[i].kb

\* C23: no push on a finalized Renderer issues a send or an edit.
C23_PushesIgnoredAfterFinalize == ~call.late

\* C24: (no platform call having failed, the finalize of line 233 left
\* aside) the edits a Renderer issues within one second are at most
\* ceil(1 / update_interval) + 1.
C24_RateLimit ==
    (call.fails = 0 /\ ~call.safety) =>
        call.burst <= CeilDiv(1, call.update_interval) + 1

\* C25: no push, flush or finalize of the Renderer raises, whatever the
\* platform answers.
C25_RendererNeverThrows == ~call.threw

\* The longest body the last message may have: max_length characters of text,
\* the blank line and the footer.
LastBodyLimit == StreamMaxLength + 2 + Len(ResultFooter)

\* C29: a turn that streamed more than max_length characters and whose RESULT
\* has been handled (no cancel, no platform failure) has left at least
\* ceil(total / max_length) messages, none with the keyboard, every body
\* within max_length (the last one not counting its footer).
C29_LongOutputSplit ==
    (/\ call.pc = "after" /\ call.result /\ call.fails = 0 /\ ~call.cancelled
     /\ Len(call.inputs) > StreamMaxLength) =>
        /\ Len(call.msgs) >= CeilDiv(Len(call.inputs), StreamMaxLength)
        /\ \A i \in DOMAIN call.msgs :
              /\ ~call.msgs[i].kb
              /\ Len(call.msgs[i].body) <= IF i = Len(call.msgs) THEN LastBodyLimit
                                           ELSE StreamMaxLength

\* C26: no flush ends with an exception leaving _process_buffer, whatever the
\* child, the Runner or the platform did during it.
C26_NoErrorLeavesFlush == lastEnd.how # "raised"

\* C27: session_cost is the cost_usd of the most recent RESULT of the session
\* (0 after /clear or a session timeout), not the sum over the RESULTs.
C27_LastValueWins == call.session_cost = call.last

\* C28: an update that does not come from the configured id changes nothing
\* of the Coordinator's state and causes no outbound platform call.
C28_UnauthorizedDropped ==
    (call.op # "none" /\ ~call.auth) => (call.after = call.before /\ call.calls = 0)

\* The tags the mapping table allows for a record of the given type.
TableTags(type) ==
    IF type = JStr("system") THEN {"INIT"}
    ELSE IF type = JStr("stream_event") THEN {"TEXT_DELTA", "TOOL_START"}
    ELSE IF type = JStr("assistant") THEN {"TOOL_USE"}
    ELSE IF type = JStr("user") THEN {"TOOL_RESULT"}
    ELSE IF type = JStr("result") THEN {"RESULT"}
    ELSE {}

\* C30: for every decoded record parse returns without raising, and returns
\* none or an event whose tag the table assigns to the record's type.
C30_ParserTotal ==
    call.op = "parse" =>
        /\ call.ret # "raise"
        /\ call.ret \in {"none"} \cup TableTags(Get(call.arg, "type", JNull))


\* ------------------------------------------------------------------ C31
\* C31: inject(prompt) with no live child (none referenced, or the exit status
\* of the referenced child is set) raises to the caller and leaves the runner
\* as it was: nothing is written, no child is started, the queue, session_id
\* and the child reference are unchanged.  With a live child it hands exactly
\* one line to the child's stdin (a single line feed, at its end) and changes
\* nothing else: the queue is neither consumed nor drained.
C31_InjectContract ==
    call.op = "inject" =>
        IF call.before.process = "none" \/ call.before.returncode = "set"
          THEN call.exc = "RuntimeError" /\ call.st = call.before
          ELSE /\ Len(call.st.stdin) = Len(call.before.stdin) + 1
               /\ LET line == call.st.stdin[Len(call.st.stdin)]
                  IN /\ line[Len(line)] = NewLine
                     /\ \A i \in 1..(Len(line) - 1) : line[i] # NewLine
               /\ call.st = [call.before EXCEPT !.stdin = call.st.stdin]
               /\ call.exc \in {"none", "pipe"}
               /\ call.exc = "pipe" <=> call.before.broken

\* inject() was refused on an exited child whose queue holds items.
C31_Witness ==
    /\ call.op = "inject"
    /\ call.before.returncode = "set"
    /\ call.before.queue # <<>>
    /\ call.before.session_id # 0
    /\ call.exc = "RuntimeError"

\* ------------------------------------------------------------------ C32
\* C32: when the write of the prompt fails with a pipe error during run(), the
\* run yields exactly one synthetic TEXT_DELTA, does not raise, keeps
\* session_id, and leaves the child reference cleared, also when the exit
\* status of the child has not been collected.
C32_PipeErrorClearsChild ==
    (call.op = "run" /\ call.exc = "pipe") =>
        /\ call.out = <<Synthetic("pipe")>>
        /\ call.st.session_id = call.before.session_id
        /\ call.st.process = "none"


\* ------------------------------------------------------------------ C33
\* C33: with an explicit configuration, discovery returns exactly the servers
\* of that file, each with the mcp__ prefix (none when the file is missing or
\* malformed) and nothing of the project's .mcp.json; and a ClaudeRunner built
\* with an explicit mcp_config keeps it as effective_mcp_config, also when
\* mcp_exclude is given.
C33_ExplicitConfig ==
    /\ (call.op = "_discover_mcp_servers" /\ "mcp_config" \in call.keywords
            /\ call.config.kind # "other_shape") =>
          /\ Len(call.ret) = Cardinality(call.config.servers)
          /\ {call.ret[i] : i \in DOMAIN call.ret} =
                 {<<"mcp__", n>> : n \in call.config.servers}
    /\ (call.op = "ClaudeRunner" /\ "mcp_config" \in call.keywords) =>
          \E i \in DOMAIN call.ret : call.ret[i] = "effective_mcp_config"


\* ------------------------------------------------------------------ C34
\* C34: a text, photo or document that arrives while a turn is in progress
\* does not end that turn: arming the debounce cancels only a timer that has
\* not fired, so no flush is cancelled between the start of its stream and
\* the end of its event loop.
C34_InputKeepsTurn == ~(lastEnd.how = "cancelled" /\ lastEnd.at \in TurnPcs)


\* ------------------------------------------------------------------ C35
\* C35: every stream that posted its placeholder is finalized: whichever way
\* the flush that owns it ends after entering runner.run, a final edit
\* without the keyboard (by the flush or by a cancel) has been issued on it.
C35_StartedIsFinalized ==
    (lastEnd.d # 0 /\ lastEnd.at \in RunPcs) => lastEnd.fin + lastEnd.cfin >= 1


\* ------------------------------------------------------------------ C36
\* C36: the reader task is bound to the child.  A running reader reads the
\* child the runner refers to, so when the reference is cleared (by run()'s
\* finally, by cancel) no reader is left running; and a new reader is created
\* only after the previous one was cancelled or has ended.
C36_ReaderBoundToChild ==
    /\ [](reader.st = "running" => process # "none" /\ reader.c = child.id)
    /\ [][(reader'.st = "running" /\ reader'.c # reader.c) => reader.st # "running"]_vars


\* ------------------------------------------------------------------ C37
PushOps == {"push_text", "push_tool_call", "push_tool_result"}

\* C37: a push inside the update interval issues no platform call and leaves
\* the messages and last_update as they were; a flush with nothing dirty or
\* with no current message issues no platform call and changes nothing; and
\* after a push or flush that reached the platform and returned, dirty is
\* false and last_update is the time of that flush, so that the next
\* push-triggered flush is at least update_interval later.
C37_FlushGating ==
    [][/\ (call'.op \in PushOps /\ call.now - call.last_update < call.update_interval) =>
             /\ ~call'.acted
             /\ call'.msgs = call.msgs
             /\ call'.last_update = call.last_update
             /\ call'.dirty
       /\ (call'.op = "_flush" /\ (~call.dirty \/ call.current_msg = 0)) =>
             call' = [call EXCEPT !.op = "_flush", !.acted = FALSE]
       /\ (call'.op \in PushOps \cup {"_flush"} /\ call'.acted /\ ~call'.exc) =>
             /\ ~call'.dirty
             /\ call'.last_update = call.now
             /\ call.now - call.last_update >= call.update_interval \/ call'.op = "_flush"
      ]_vars

\* A push was held back: the stream is dirty inside the interval of an
\* earlier flush, and the push reached no message.
C37_Witness ==
    /\ call.op \in PushOps
    /\ ~call.acted
    /\ call.dirty
    /\ call.last_update > 0
    /\ call.now - call.last_update < call.update_interval
    /\ call.fails = 0


\* ------------------------------------------------------------------ C38
\* The step handles a /compact: a handler execution that starts no download
\* and leaves its own flush record, which is neither a sleeping timer nor
\* untouched (a text whose re-arming raised).
CompactStep == ndrv' = ndrv + 1 /\ hpc' = hpc /\ drv'[ndrv'].pc \notin {"sleep", "idle"}

BuffersEmpty == buffer = <<>> /\ buffer_photos = <<>> /\ buffer_docs = <<>>

\* C38: /compact while a turn is active is rejected: the buffers stay as they
\* are and no turn starts.  Otherwise "/compact" joins the buffered texts and
\* the flush happens in the same step, without a timer: it takes everything
\* buffered, leaves the buffers empty and starts the one active turn, whose
\* prompt ends with /compact.  A debounce timer that is pending over empty
\* buffers keeps them empty while it is pending, and when it ends it was
\* cancelled or it fired on the empty buffers and started no turn.
C38_Compact ==
    [][/\ CompactStep =>
             IF is_running
               THEN /\ UNCHANGED <<bufVars, stream, runnerVars>>
                    /\ drv'[ndrv'] = Ended("done")
                    /\ lastEnd'.how = "rejected"
               ELSE /\ drv'[ndrv'].pc = "stream_start"
                    /\ drv'[ndrv'].texts = Append(buffer, 0)
                    /\ drv'[ndrv'].photos = buffer_photos
                    /\ drv'[ndrv'].docs = buffer_docs
                    /\ LET prompt == build_prompt(BufferText(drv'[ndrv'].texts),
                                                  drv'[ndrv'].photos, drv'[ndrv'].docs)
                       IN prompt[Len(prompt)] = <<"text", 0>>
                    /\ BuffersEmpty'
                    /\ {d \in Drivers : drv'[d].live} = {ndrv'}
                    /\ stream' = ndrv'
       /\ \A d \in Drivers :
             (drv[d].pc = "sleep" /\ BuffersEmpty) =>
                 \/ drv'[d].pc = "sleep" /\ BuffersEmpty'
                 \/ /\ drv'[d] = Ended("done")
                    /\ lastEnd'.d = d
                    /\ lastEnd'.how \in {"empty", "cancelled"}
                    /\ lastEnd'.how = "empty" => UNCHANGED <<stream, runnerVars>> /\ BuffersEmpty'
      ]_vars

\* The timer that was pending when /compact flushed has fired on the empty
\* buffers, while the /compact turn (the earlier text plus "/compact") runs.
C38_Witness ==
    /\ lastEnd.how = "empty"
    /\ \E e \in Drivers :
          /\ drv[e].kind = "handler" /\ drv[e].live
          /\ drv[e].pc \in RunPcs
          /\ Len(drv[e].texts) = 2
          /\ lastEnd.d < e

\* C39: per-event routing in a turn.  A TEXT_DELTA makes exactly one
\* push_text, a TOOL_USE exactly one push_tool_call, a TOOL_RESULT exactly one
\* push_tool_result when verbose is on and no renderer call when it is off,
\* INIT and TOOL_START make no renderer call, and a RESULT makes one finalize
\* with the footer of its duration in seconds and its turns, its text never
\* being handed to the renderer.
C39_Routing ==
    call.op = "route" =>
        LET e == call.event
            calls == call.ret.calls
            Only(method) == Len(calls) = 1 /\ calls[1].m = method
        IN  /\ e.type = "TEXT_DELTA" => Only("push_text")
            /\ e.type = "TOOL_USE" => Only("push_tool_call")
            /\ (e.type = "TOOL_RESULT" /\ call.verbose) => Only("push_tool_result")
            /\ (e.type = "TOOL_RESULT" /\ ~call.verbose) => calls = <<>>
            /\ e.type \in {"INIT", "TOOL_START"} => calls = <<>>
            /\ e.type = "RESULT" =>
                  /\ calls = <<RendererCall("finalize",
                                            Footer(e.duration_ms \div 1000, e.num_turns))>>
                  /\ \A i \in DOMAIN calls : calls[i].arg # e.text

\* A step in which the iterator of flush d takes the head of the queue.
PopsItem(d) ==
    /\ drv[d].pc = "read" /\ queue # <<>> /\ queue' = QueueRest(queue)
    /\ drv'[d].pc = "done" \/ (lasty' # lasty /\ lasty'.d = d)

\* C40: no cross-child leakage.  When the pump of a new child starts, the
\* queue is empty; and every item a turn pops from the queue, a sentinel
\* included, was enqueued by the pump of the child started last, so no item
\* of a previous child is yielded by, or ends, a turn on the new child.
C40_NoCrossChildLeakage ==
    /\ [][(reader'.st = "running" /\ reader'.c # reader.c) => queue' = <<>>]_vars
    /\ [][\A d \in Drivers : PopsItem(d) => QueueGet(queue).c = nchild]_vars

====
